---- MODULE Spec2Model ----
(***************************************************************************)
(* Model of nom-sql/src/common.rs: the SQL type grammar, the literal value *)
(* model with its rendering, and the literal grammar.  Every grammar       *)
(* function is a pure mapping from a byte span to (rest, value) or an      *)
(* error.  A behaviour is one call: the initial state draws the function   *)
(* and its input from bounded sets, a step applies the function and        *)
(* records the result; a rendered literal can then be parsed back.         *)
(*                                                                         *)
(* Text is a sequence of one-character strings.  A parse result is a       *)
(* record [ok, rest, val]: on success rest is the unconsumed input, on     *)
(* failure rest is the input the failing parser was given.                 *)
(***************************************************************************)
EXTENDS Integers, Sequences, FiniteSets, TLC

VARIABLES pc, fn, dialect, text, lit, other, subject, res

vars == <<pc, fn, dialect, text, lit, other, subject, res>>

(***************************************************************************)
(* Text helpers                                                            *)
(***************************************************************************)
Chars(s) == [k \in 1..Len(s) |-> SubSeq(s, k, k)]

Drop(s, n) == SubSeq(s, n + 1, Len(s))

Take(s, n) == SubSeq(s, 1, n)

Digits == {"0", "1", "2", "3", "4", "5", "6", "7", "8", "9"}

DigitVal(c) ==
    CASE c = "0" -> 0 [] c = "1" -> 1 [] c = "2" -> 2 [] c = "3" -> 3
      [] c = "4" -> 4 [] c = "5" -> 5 [] c = "6" -> 6 [] c = "7" -> 7
      [] c = "8" -> 8 [] c = "9" -> 9

DigitChar(n) == SubSeq("0123456789", n + 1, n + 1)

UpperCase == "ABCDEFGHIJKLMNOPQRSTUVWXYZ"

LowerCase == "abcdefghijklmnopqrstuvwxyz"

\* ASCII lower-casing of one byte, as tag_no_case compares
ToLower(c) ==
    IF \E k \in 1..26 : SubSeq(UpperCase, k, k) = c
    THEN LET k == CHOOSE j \in 1..26 : SubSeq(UpperCase, j, j) = c
         IN  SubSeq(LowerCase, k, k)
    ELSE c

LowerText(s) == [k \in 1..Len(s) |-> ToLower(s[k])]

\* Option<T>: None is the empty tuple, Some(v) the one-element tuple
None == <<>>

Some(v) == <<v>>

IsSome(o) == Len(o) = 1

(***************************************************************************)
(* Parse results and the nom combinators the grammar is built from         *)
(***************************************************************************)
Ok(rest, val) == [ok |-> TRUE, rest |-> rest, val |-> val]

Err(i, kind) == [ok |-> FALSE, rest |-> i, val |-> [tag |-> "Error", kind |-> kind]]

\* nom::bytes::complete::tag: the input starts with exactly t
tag(t, i) ==
    IF Len(i) >= Len(t) /\ Take(i, Len(t)) = Chars(t)
    THEN Ok(Drop(i, Len(t)), Take(i, Len(t)))
    ELSE Err(i, "Tag")

\* nom::bytes::complete::tag_no_case: the same, comparing ASCII case-insensitively
tag_no_case(t, i) ==
    IF Len(i) >= Len(t) /\ LowerText(Take(i, Len(t))) = LowerText(Chars(t))
    THEN Ok(Drop(i, Len(t)), Take(i, Len(t)))
    ELSE Err(i, "Tag")

\* length of the longest prefix of i made of bytes in set
PrefixLen(i, set) ==
    IF \A k \in 1..Len(i) : i[k] \in set THEN Len(i)
    ELSE (CHOOSE k \in 1..Len(i) : i[k] \notin set /\ \A j \in 1..(k - 1) : i[j] \in set) - 1

\* length of the longest suffix of i made of bytes in set
SuffixLen(i, set) ==
    IF \A k \in 1..Len(i) : i[k] \in set THEN Len(i)
    ELSE Len(i) - (CHOOSE k \in 1..Len(i) :
                       i[k] \notin set /\ \A j \in (k + 1)..Len(i) : i[j] \in set)

\* nom::character::complete::digit1: one or more ASCII digits
digit1(i) ==
    LET n == PrefixLen(i, Digits)
    IN  IF n = 0 THEN Err(i, "Digit") ELSE Ok(Drop(i, n), Take(i, n))

WhitespaceBytes == {" ", "\t", "\n", "\r"}

\* crate::whitespace::whitespace0: zero or more whitespace bytes
whitespace0(i) ==
    LET n == PrefixLen(i, WhitespaceBytes) IN Ok(Drop(i, n), Take(i, n))

\* crate::whitespace::whitespace1: one or more whitespace bytes
whitespace1(i) ==
    LET n == PrefixLen(i, WhitespaceBytes)
    IN  IF n = 0 THEN Err(i, "Whitespace") ELSE Ok(Drop(i, n), Take(i, n))

\* nom::Err::Failure: the unrecoverable form of an error
Failure(r) == [r EXCEPT !.val.tag = "Failure"]

\* a failed result is recoverable when it is nom::Err::Error
Recoverable(r) == ~r.ok /\ r.val.tag = "Error"

\* nom::combinator::cut applied to a result: a recoverable error becomes
\* unrecoverable
cut(r) == IF Recoverable(r) THEN Failure(r) ELSE r

\* nom::combinator::opt applied to a result r obtained on input i: only a
\* recoverable error becomes None
opt(r, i) ==
    IF r.ok THEN Ok(r.rest, Some(r.val))
    ELSE IF Recoverable(r) THEN Ok(i, None)
    ELSE r

(***************************************************************************)
(* Bounded-width numbers.  Values wider than 32 bits (i64, u32, f64) are   *)
(* kept as decimal digit text and compared digit by digit.                 *)
(***************************************************************************)
\* the digits without leading zeros, keeping one digit
StripZeros(ds) ==
    LET n == PrefixLen(ds, {"0"})
    IN  IF n = Len(ds) THEN <<"0">> ELSE Drop(ds, n)

\* lexicographic <= on digit texts of equal length
RECURSIVE LeqDigits(_, _)
LeqDigits(a, b) ==
    IF a = <<>> THEN TRUE
    ELSE IF DigitVal(Head(a)) # DigitVal(Head(b))
         THEN DigitVal(Head(a)) < DigitVal(Head(b))
         ELSE LeqDigits(Tail(a), Tail(b))

\* the number written by ds is at most the number written by max
FitsMax(ds, max) ==
    LET s == StripZeros(ds)
    IN  \/ Len(s) < Len(max)
        \/ Len(s) = Len(max) /\ LeqDigits(s, Chars(max))

\* the value of a short digit text
RECURSIVE ToNat(_)
ToNat(ds) ==
    IF ds = <<>> THEN 0
    ELSE 10 * ToNat(Take(ds, Len(ds) - 1)) + DigitVal(ds[Len(ds)])

U16Max == "65535"

U8Max == "255"

U32Max == "4294967295"

I64Max == "9223372036854775807"

\* <u16 as FromStr>::from_str on a digit text
digit_as_u16(len) ==
    IF FitsMax(len, U16Max) THEN Ok(len, ToNat(StripZeros(len)))
    ELSE Err(len, "LengthValue")

\* <u8 as FromStr>::from_str on a digit text
digit_as_u8(len) ==
    IF FitsMax(len, U8Max) THEN Ok(len, ToNat(StripZeros(len)))
    ELSE Err(len, "LengthValue")

\* map_res(map_res(digit1, str::from_utf8), u32::from_str)
digit_as_u32(i) ==
    LET d == digit1(i)
    IN  IF ~d.ok THEN d
        ELSE IF FitsMax(d.val, U32Max) THEN Ok(d.rest, StripZeros(d.val))
        ELSE Err(i, "MapRes")

\* a conversion that wraps instead of failing: keeps the low digits
digit_as_i64_wrapping(i) ==
    LET d == digit1(i)
        s == StripZeros(d.val)
    IN  IF ~d.ok THEN d
        ELSE IF FitsMax(d.val, I64Max) THEN Ok(d.rest, s)
        ELSE Ok(d.rest, StripZeros(Drop(s, Len(s) - 18)))

\* map_res(map_res(digit1, str::from_utf8), i64::from_str): the magnitude
\* must fit the positive range of i64
digit_as_i64(i) ==
    LET d == digit1(i)
    IN  IF ~d.ok THEN d
        ELSE IF FitsMax(d.val, I64Max) THEN Ok(d.rest, StripZeros(d.val))
        ELSE Err(i, "MapRes")

(***************************************************************************)
(* The Literal value model                                                 *)
(*                                                                         *)
(* Integer(i64) is [neg, mag] with mag the magnitude's digits.  A Float or *)
(* Double is [value, precision]; value describes the IEEE value by its     *)
(* class, sign and - every finite binary float having a finite decimal     *)
(* expansion - the exact digits before and after the point (frac without   *)
(* trailing zeros), with the NaN payload for class "nan".                  *)
(***************************************************************************)
Finite(neg, int, frac) ==
    [class |-> "finite", neg |-> neg, int |-> Chars(int), frac |-> Chars(frac), payload |-> 0]

NaN(neg, payload) ==
    [class |-> "nan", neg |-> neg, int |-> <<>>, frac |-> <<>>, payload |-> payload]

Infinity(neg) ==
    [class |-> "inf", neg |-> neg, int |-> <<>>, frac |-> <<>>, payload |-> 0]

Double(value, precision) == [value |-> value, precision |-> precision]

LitNull == [tag |-> "Null"]

LitBoolean(b) == [tag |-> "Boolean", b |-> b]

LitInteger(neg, mag) == [tag |-> "Integer", neg |-> neg, mag |-> mag]

LitFloat(f) == [tag |-> "Float", real |-> f]

LitDouble(d) == [tag |-> "Double", real |-> d]

LitString(s) == [tag |-> "String", s |-> s]

LitBlob(bytes) == [tag |-> "Blob", bytes |-> bytes]

LitCurrentTime == [tag |-> "CurrentTime"]

LitCurrentDate == [tag |-> "CurrentDate"]

LitCurrentTimestamp == [tag |-> "CurrentTimestamp"]

QuestionMark == [kind |-> "QuestionMark"]

DollarNumber(n) == [kind |-> "DollarNumber", n |-> n]

ColonNumber(n) == [kind |-> "ColonNumber", n |-> n]

LitPlaceholder(item) == [tag |-> "Placeholder", item |-> item]

\* f32::to_bits / f64::to_bits: the bit pattern, one per described value
to_bits(v) == <<v.class, v.neg, v.int, v.frac, v.payload>>

IsZero(v) == v.class = "finite" /\ v.int = <<"0">> /\ v.frac = <<>>

\* the IEEE comparison of the primitive float types: NaN differs from
\* everything, the two zeros are equal
IeeeEq(a, b) ==
    /\ a.class # "nan"
    /\ b.class # "nan"
    /\ \/ IsZero(a) /\ IsZero(b)
       \/ to_bits(a) = to_bits(b)


\* Hasher::write_u32 / write_u64 and write_u8: the hasher state is the
\* stream of values written to it
write_bits(state, bits) == Append(state, [width |-> "bits", v |-> bits])

write_u8(state, n) == Append(state, [width |-> "u8", v |-> n])

\* the derived comparison of a struct of a primitive float and a u8
IeeeRealEq(a, b) == IeeeEq(a.value, b.value) /\ a.precision = b.precision

\* impl PartialEq for Float / Double
RealEq(a, b) == to_bits(a.value) = to_bits(b.value) /\ a.precision = b.precision

\* impl Hash for Float / Double, run on an empty hasher
RealHash(a) == write_u8(write_bits(<<>>, to_bits(a.value)), a.precision)

(***************************************************************************)
(* impl Display for Literal                                                *)
(***************************************************************************)
Zeros(n) == [k \in 1..n |-> "0"]

\* ds + 1 on a digit text, growing by one digit on carry out
RECURSIVE IncDigits(_)
IncDigits(ds) ==
    IF ds = <<>> THEN <<"1">>
    ELSE LET last == DigitVal(ds[Len(ds)])
             init == Take(ds, Len(ds) - 1)
         IN  IF last < 9 THEN Append(init, DigitChar(last + 1))
             ELSE Append(IncDigits(init), "0")

\* format!("{:.*}", p, value) of a finite value: the exact expansion rounded
\* to p fractional digits, ties to even; no decimal point when p = 0
FormatFinite(v, p) ==
    LET all == v.int \o v.frac
        keep == Len(v.int) + p
        next == DigitVal(v.frac[p + 1])
        odd == DigitVal(all[keep]) % 2 = 1
        up == next > 5 \/ (next = 5 /\ (Len(v.frac) > p + 1 \/ odd))
        digits == IF Len(v.frac) <= p THEN all \o Zeros(p - Len(v.frac))
                  ELSE IF up THEN IncDigits(Take(all, keep))
                  ELSE Take(all, keep)
        ilen == Len(digits) - p
    IN  (IF v.neg THEN <<"-">> ELSE <<>>)
          \o Take(digits, ilen)
          \o (IF p = 0 THEN <<>> ELSE <<".">> \o Drop(digits, ilen))

\* format!("{:.*}", p, value)
FormatReal(v, p) ==
    CASE v.class = "finite" -> FormatFinite(v, p)
      [] v.class = "nan" -> Chars("NaN")
      [] v.class = "inf" -> (IF v.neg THEN <<"-">> ELSE <<>>) \o Chars("inf")

\* str::trim_end_matches('0')
trim_end_matches_0(s) == Take(s, Len(s) - SuffixLen(s, {"0"}))

ends_with(s, c) == s # <<>> /\ s[Len(s)] = c

MaxRenderPrecision == 30

\* write_real!: precision capped, trailing zeros trimmed, one zero put back
\* after a bare decimal point
write_real(real, prec) ==
    LET precision == IF prec < MaxRenderPrecision THEN prec ELSE MaxRenderPrecision
        fstr == FormatReal(real, precision)
        r == trim_end_matches_0(fstr)
    IN  IF ends_with(r, ".") THEN Append(r, "0") ELSE r

\* format!("{:x}", v) of a byte: lowercase hex without padding
HexByte(v) ==
    LET hex == "0123456789abcdef"
        lo == SubSeq(hex, (v % 16) + 1, (v % 16) + 1)
        hi == SubSeq(hex, (v \div 16) + 1, (v \div 16) + 1)
    IN  IF v < 16 THEN <<lo>> ELSE <<hi, lo>>

\* Itertools::join / [String]::join on texts
RECURSIVE Join(_, _)
Join(parts, sep) ==
    IF parts = <<>> THEN <<>>
    ELSE IF Len(parts) = 1 THEN parts[1]
    ELSE parts[1] \o sep \o Join(Tail(parts), sep)

\* impl ToString for ItemPlaceholder
ItemToString(item) ==
    CASE item.kind = "QuestionMark" -> <<"?">>
      [] item.kind = "DollarNumber" -> <<"$">> \o item.n
      [] item.kind = "ColonNumber" -> <<":">> \o item.n

\* s.replace('\'', "''").replace('\\', "\\\\")
RECURSIVE EscapeString(_)
EscapeString(s) ==
    IF s = <<>> THEN <<>>
    ELSE (CASE Head(s) = "'" -> <<"'", "'">>
            [] Head(s) = "\\" -> <<"\\", "\\">>
            [] OTHER -> <<Head(s)>>) \o EscapeString(Tail(s))

\* impl Display for Literal
DisplayLiteral(l) ==
    CASE l.tag = "Null" -> Chars("NULL")
      [] l.tag = "Boolean" -> (IF l.b THEN Chars("TRUE") ELSE Chars("FALSE"))
      [] l.tag = "Integer" -> (IF l.neg THEN <<"-">> ELSE <<>>) \o l.mag
      [] l.tag \in {"Float", "Double"} -> write_real(l.real.value, l.real.precision)
      [] l.tag = "String" -> <<"'">> \o EscapeString(l.s) \o <<"'">>
      [] l.tag = "Blob" -> Join([k \in 1..Len(l.bytes) |-> HexByte(l.bytes[k])], <<" ">>)
      [] l.tag = "CurrentTime" -> Chars("CURRENT_TIME")
      [] l.tag = "CurrentDate" -> Chars("CURRENT_DATE")
      [] l.tag = "CurrentTimestamp" -> Chars("CURRENT_TIMESTAMP")
      [] l.tag = "Placeholder" -> ItemToString(l.item)


(***************************************************************************)
(* The literal grammar                                                     *)
(***************************************************************************)
\* sequencing as in nom's tuple / preceded / terminated / map: r when r
\* failed, else what the rest of the sequence F makes of r
Bind(r, F(_)) == IF r.ok THEN F(r) ELSE r

\* nom::branch::alt on the parsers' results: the first that is not a
\* recoverable error; the last error when all are
RECURSIVE alt(_)
alt(rs) ==
    IF Len(rs) = 1 \/ ~Recoverable(Head(rs)) THEN Head(rs) ELSE alt(Tail(rs))

\* a keyword branch: map(tag_no_case(kw), |_| val)
Keyword(kw, val, i) == Bind(tag_no_case(kw, i), LAMBDA t : Ok(t.rest, val))

\* tuple((opt(tag("-")), digit1, tag("."), digit1))
float(i) ==
    Bind(opt(tag("-", i), i), LAMBDA s :
    Bind(digit1(s.rest), LAMBDA m :
    Bind(tag(".", m.rest), LAMBDA dot :
    Bind(digit1(dot.rest), LAMBDA f :
    Ok(f.rest, [neg |-> IsSome(s.val), int |-> m.val, frac |-> f.val])))))

\* f64::from_str on the text recognize(float) matched.  The decimals drawn
\* as inputs are binary fractions, which f64 holds exactly, so the value is
\* the decimal itself in normal form.
f64_from_str(neg, int, frac) ==
    [class |-> "finite", neg |-> neg, int |-> StripZeros(int),
     frac |-> trim_end_matches_0(frac), payload |-> 0]

U8Modulus == 256

\* usize as u8: the truncating cast
as_u8(n) == n % U8Modulus

\* Floating point literal value
float_literal(i) ==
    Bind(float(i), LAMBDA f :
    Ok(f.rest, LitDouble(Double(f64_from_str(f.val.neg, f.val.int, f.val.frac),
                                as_u8(Len(f.val.frac))))))

\* Integer literal value
integer_literal(i) ==
    Bind(opt(tag("-", i), i), LAMBDA s :
    Bind(digit_as_i64(s.rest), LAMBDA d :
    Ok(d.rest, LitInteger(IsSome(s.val) /\ d.val # <<"0">>, d.val))))

\* the boolean keywords matched in lower case only
boolean_literal_exact(i) ==
    alt(<<Bind(tag("true", i), LAMBDA t : Ok(t.rest, LitBoolean(TRUE))),
          Bind(tag("false", i), LAMBDA t : Ok(t.rest, LitBoolean(FALSE)))>>)

boolean_literal(i) ==
    alt(<<Keyword("true", LitBoolean(TRUE), i), Keyword("false", LitBoolean(FALSE), i)>>)

Dialects == {"MySQL", "PostgreSQL"}

\* the body of a quoted string up to the closing quote q: a doubled quote is
\* one quote, a doubled backslash one backslash
RECURSIVE StringBody(_, _, _)
StringBody(i, q, acc) ==
    IF i = <<>> THEN Err(i, "Tag")
    ELSE IF Len(i) >= 2 /\ i[1] = q /\ i[2] = q THEN StringBody(Drop(i, 2), q, Append(acc, q))
    ELSE IF Len(i) >= 2 /\ i[1] = "\\" /\ i[2] = "\\"
         THEN StringBody(Drop(i, 2), q, Append(acc, "\\"))
    ELSE IF i[1] = q THEN Ok(Tail(i), acc)
    ELSE IF i[1] = "\\" THEN Err(i, "Tag")
    ELSE StringBody(Tail(i), q, Append(acc, i[1]))

\* Dialect::string_literal: single-quoted, and double-quoted under MySQL
string_literal(d, i) ==
    IF i # <<>> /\ i[1] = "'" THEN StringBody(Tail(i), "'", <<>>)
    ELSE IF d = "MySQL" /\ i # <<>> /\ i[1] = "\"" THEN StringBody(Tail(i), "\"", <<>>)
    ELSE Err(i, "Tag")

\* preceded(tag(sigil), u32) mapped to a placeholder
NumberedPlaceholder(sigil, i) ==
    Bind(tag(sigil, i), LAMBDA t :
    Bind(digit_as_u32(t.rest), LAMBDA n :
    Ok(n.rest, LitPlaceholder(IF sigil = ":" THEN ColonNumber(n.val)
                                             ELSE DollarNumber(n.val)))))

\* the string alternative of literal
StringAlternative(d, i) ==
    Bind(string_literal(d, i), LAMBDA s : Ok(s.rest, LitString(s.val)))

\* literal with the integer alternative tried before the floating one
literal_integer_first(d, i) ==
    alt(<<integer_literal(i),
          float_literal(i),
          StringAlternative(d, i),
          Keyword("null", LitNull, i),
          Keyword("current_timestamp", LitCurrentTimestamp, i),
          Keyword("current_date", LitCurrentDate, i),
          Keyword("current_time", LitCurrentTime, i),
          Keyword("?", LitPlaceholder(QuestionMark), i),
          NumberedPlaceholder(":", i),
          NumberedPlaceholder("$", i),
          boolean_literal(i)>>)

\* literal with current_time tried before current_timestamp
literal_time_first(d, i) ==
    alt(<<float_literal(i),
          integer_literal(i),
          StringAlternative(d, i),
          Keyword("null", LitNull, i),
          Keyword("current_time", LitCurrentTime, i),
          Keyword("current_timestamp", LitCurrentTimestamp, i),
          Keyword("current_date", LitCurrentDate, i),
          Keyword("?", LitPlaceholder(QuestionMark), i),
          NumberedPlaceholder(":", i),
          NumberedPlaceholder("$", i),
          boolean_literal(i)>>)

\* Any literal value.
literal(d, i) ==
    alt(<<float_literal(i),
          integer_literal(i),
          StringAlternative(d, i),
          Keyword("null", LitNull, i),
          Keyword("current_timestamp", LitCurrentTimestamp, i),
          Keyword("current_date", LitCurrentDate, i),
          Keyword("current_time", LitCurrentTime, i),
          Keyword("?", LitPlaceholder(QuestionMark), i),
          NumberedPlaceholder(":", i),
          NumberedPlaceholder("$", i),
          boolean_literal(i)>>)


(***************************************************************************)
(* The type grammar                                                        *)
(***************************************************************************)
Ty(name) == [tag |-> name]

TyLen(name, len) == [tag |-> name, len |-> len]

TyDecimal(m, d) == [tag |-> "Decimal", m |-> m, d |-> d]

TyNumeric(prec) == [tag |-> "Numeric", prec |-> prec]

TyEnum(variants) == [tag |-> "Enum", variants |-> variants]

\* delimited(tag("("), digit1, tag(")"))
delim_digit(i) ==
    Bind(tag("(", i), LAMBDA o :
    Bind(digit1(o.rest), LAMBDA d :
    Bind(tag(")", d.rest), LAMBDA c : Ok(c.rest, d.val))))

\* map_parser(delim_digit, digit_as_u16)
delim_u16(i) ==
    Bind(delim_digit(i), LAMBDA d :
    Bind(digit_as_u16(d.val), LAMBDA v : Ok(d.rest, v.val)))

\* opt(preceded(tag(","), preceded(whitespace0, digit1)))
OptCommaDigits(i) ==
    opt(Bind(tag(",", i), LAMBDA c :
        Bind(whitespace0(c.rest), LAMBDA w : digit1(w.rest))), i)

\* the (m, d) pair of the precision parsers: m already converted, the
\* optional scale digits d converted to a u8
PrecisionPair(m, d) ==
    IF IsSome(d.val)
    THEN Bind(digit_as_u8(d.val[1]), LAMBDA dv : Ok(d.rest, <<m, Some(dv.val)>>))
    ELSE Ok(d.rest, <<m, None>>)

precision_helper(i) ==
    Bind(digit1(i), LAMBDA m :
    Bind(OptCommaDigits(m.rest), LAMBDA d :
    Bind(digit_as_u8(m.val), LAMBDA mv : PrecisionPair(mv.val, d))))

precision(i) ==
    Bind(tag("(", i), LAMBDA o :
    Bind(precision_helper(o.rest), LAMBDA p :
    Bind(tag(")", p.rest), LAMBDA c : Ok(c.rest, p.val))))

\* numeric_precision_inner reading the precision as a u8, as precision_helper does
numeric_precision_inner_u8(i) ==
    Bind(digit1(i), LAMBDA m :
    Bind(whitespace0(m.rest), LAMBDA w :
    Bind(OptCommaDigits(w.rest), LAMBDA d :
    Bind(digit_as_u8(m.val), LAMBDA mv : PrecisionPair(mv.val, d)))))

numeric_precision_inner(i) ==
    Bind(digit1(i), LAMBDA m :
    Bind(whitespace0(m.rest), LAMBDA w :
    Bind(OptCommaDigits(w.rest), LAMBDA d :
    Bind(digit_as_u16(m.val), LAMBDA mv : PrecisionPair(mv.val, d)))))

numeric_precision(i) ==
    Bind(tag("(", i), LAMBDA o :
    Bind(numeric_precision_inner(o.rest), LAMBDA p :
    Bind(tag(")", p.rest), LAMBDA c : Ok(c.rest, p.val))))

opt_signed(i) ==
    opt(alt(<<Keyword("unsigned", "Unsigned", i), Keyword("signed", "Signed", i)>>), i)

int_type(kw, mk_unsigned, mk_signed, i) ==
    Bind(tag_no_case(kw, i), LAMBDA t :
    Bind(opt(delim_u16(t.rest), t.rest), LAMBDA len :
    Bind(whitespace0(len.rest), LAMBDA w :
    Bind(opt_signed(w.rest), LAMBDA signed :
    Ok(signed.rest,
       TyLen(IF signed.val = Some("Unsigned") THEN mk_unsigned ELSE mk_signed, len.val))))))

DefaultDecimalPrecision == 32

\* the Decimal built from an optional (m, d) pair and the default precision
DecimalOf(p, default) ==
    IF ~IsSome(p) THEN TyDecimal(default, 0)
    ELSE IF ~IsSome(p[1][2]) THEN TyDecimal(p[1][1], 0)
    ELSE TyDecimal(p[1][1], p[1][2][1])

\* decimal_or_numeric with MySQL's documented default precision of 10
decimal_or_numeric_default_10(i) ==
    Bind(alt(<<tag_no_case("decimal", i), tag_no_case("numeric", i)>>), LAMBDA k :
    Bind(opt(precision(k.rest), k.rest), LAMBDA p :
    Bind(whitespace0(p.rest), LAMBDA w : Ok(w.rest, DecimalOf(p.val, 10)))))

decimal_or_numeric(i) ==
    Bind(alt(<<tag_no_case("decimal", i), tag_no_case("numeric", i)>>), LAMBDA k :
    Bind(opt(precision(k.rest), k.rest), LAMBDA p :
    Bind(whitespace0(p.rest), LAMBDA w :
    Ok(w.rest, DecimalOf(p.val, DefaultDecimalPrecision)))))

\* whitespace1, kw1, whitespace1, "time", whitespace1, "zone"
TimeZoneClause(kw1, i) ==
    Bind(whitespace1(i), LAMBDA a :
    Bind(tag_no_case(kw1, a.rest), LAMBDA b :
    Bind(whitespace1(b.rest), LAMBDA c :
    Bind(tag_no_case("time", c.rest), LAMBDA d :
    Bind(whitespace1(d.rest), LAMBDA e : tag_no_case("zone", e.rest))))))

opt_without_time_zone(i) ==
    Bind(opt(TimeZoneClause("without", i), i), LAMBDA o : Ok(o.rest, <<>>))

\* separated_list0(ws_sep_comma, literal(dialect)) after a first element
RECURSIVE ValueListTail(_, _, _)
ValueListTail(d, i, acc) ==
    Bind(opt(Bind(whitespace0(i), LAMBDA a :
             Bind(tag(",", a.rest), LAMBDA c :
             Bind(whitespace0(c.rest), LAMBDA b : literal(d, b.rest)))), i), LAMBDA e :
    IF IsSome(e.val) THEN ValueListTail(d, e.rest, Append(acc, e.val[1])) ELSE Ok(i, acc))

\* Parse a list of values (e.g., for INSERT syntax).
value_list(d, i) ==
    Bind(opt(literal(d, i), i), LAMBDA e :
    IF IsSome(e.val) THEN ValueListTail(d, e.rest, <<e.val[1]>>) ELSE Ok(i, <<>>))

\* map(alt((tag_no_case("boolean"), tag_no_case("bool"))), |_| SqlType::Bool)
BoolBranch(i) ==
    Bind(alt(<<tag_no_case("boolean", i), tag_no_case("bool", i)>>), LAMBDA k :
    Ok(k.rest, Ty("Bool")))

\* preceded(tag_no_case(kw), opt(delim_u16)) mapped to a type with a length
KeywordLen(kw, name, i) ==
    Bind(tag_no_case(kw, i), LAMBDA t :
    Bind(opt(delim_u16(t.rest), t.rest), LAMBDA len : Ok(len.rest, TyLen(name, len.val))))

DoubleBranch(i) ==
    Bind(tag_no_case("double", i), LAMBDA t :
    Bind(opt(Bind(whitespace1(t.rest), LAMBDA w1 : tag_no_case("precision", w1.rest)),
             t.rest), LAMBDA a :
    Bind(whitespace0(a.rest), LAMBDA b :
    Bind(opt(precision(b.rest), b.rest), LAMBDA c :
    Bind(whitespace0(c.rest), LAMBDA e :
    Bind(opt_signed(e.rest), LAMBDA f : Ok(f.rest, Ty("Double"))))))))

NumericBranch(i) ==
    Bind(tag_no_case("numeric", i), LAMBDA t :
    Bind(whitespace0(t.rest), LAMBDA w :
    Bind(opt(numeric_precision(w.rest), w.rest), LAMBDA p : Ok(p.rest, TyNumeric(p.val)))))

EnumBranch(d, i) ==
    Bind(tag_no_case("enum", i), LAMBDA t :
    Bind(tag("(", t.rest), LAMBDA o :
    Bind(value_list(d, o.rest), LAMBDA v :
    Bind(tag(")", v.rest), LAMBDA c :
    Bind(whitespace0(c.rest), LAMBDA w : Ok(w.rest, TyEnum(v.val)))))))

FloatBranch(i) ==
    Bind(tag_no_case("float", i), LAMBDA t :
    Bind(whitespace0(t.rest), LAMBDA a :
    Bind(opt(precision(a.rest), a.rest), LAMBDA b :
    Bind(whitespace0(b.rest), LAMBDA c : Ok(c.rest, Ty("Float"))))))

RealBranch(i) ==
    Bind(tag_no_case("real", i), LAMBDA t :
    Bind(whitespace0(t.rest), LAMBDA a :
    Bind(opt_signed(a.rest), LAMBDA b : Ok(b.rest, Ty("Real")))))

\* tag_no_case("timestamp"), opt(preceded(whitespace0, delim_digit))
TimestampPrefix(i) ==
    Bind(tag_no_case("timestamp", i), LAMBDA t :
    opt(Bind(whitespace0(t.rest), LAMBDA w : delim_digit(w.rest)), t.rest))

\* the time-zoned branch without the optional fractional-seconds precision
TimestampTzBranch_no_precision(i) ==
    Bind(tag_no_case("timestamp", i), LAMBDA t :
    Bind(TimeZoneClause("with", t.rest), LAMBDA z : Ok(z.rest, Ty("TimestampTz"))))

TimestampTzBranch(i) ==
    Bind(TimestampPrefix(i), LAMBDA p :
    Bind(TimeZoneClause("with", p.rest), LAMBDA z : Ok(z.rest, Ty("TimestampTz"))))

TimestampBranch(i) ==
    Bind(TimestampPrefix(i), LAMBDA p :
    Bind(opt_without_time_zone(p.rest), LAMBDA z : Ok(z.rest, Ty("Timestamp"))))

\* opt(delim_u16), whitespace0, opt(tag_no_case("binary")) after a keyword
\* result k, mapped to a type with a length
LenBinaryTail(k, name) ==
    Bind(k, LAMBDA kw :
    Bind(opt(delim_u16(kw.rest), kw.rest), LAMBDA len :
    Bind(whitespace0(len.rest), LAMBDA w :
    Bind(opt(tag_no_case("binary", w.rest), w.rest), LAMBDA b :
    Ok(b.rest, TyLen(name, len.val))))))

VarcharBranch(i) ==
    LenBinaryTail(
        alt(<<Bind(tag_no_case("varchar", i), LAMBDA v : whitespace0(v.rest)),
              Bind(tag_no_case("character", i), LAMBDA c :
              Bind(whitespace1(c.rest), LAMBDA c1 : tag_no_case("varying", c1.rest)))>>),
        "Varchar")

CharBranch(i) == LenBinaryTail(tag_no_case("char", i), "Char")

type_identifier_first_half(d, i) ==
    alt(<<int_type("tinyint", "UnsignedTinyint", "Tinyint", i),
          int_type("smallint", "UnsignedSmallint", "Smallint", i),
          int_type("integer", "UnsignedInt", "Int", i),
          int_type("int", "UnsignedInt", "Int", i),
          int_type("bigint", "UnsignedBigint", "Bigint", i),
          BoolBranch(i),
          KeywordLen("datetime", "DateTime", i),
          Keyword("date", Ty("Date"), i),
          DoubleBranch(i),
          NumericBranch(i),
          EnumBranch(d, i),
          FloatBranch(i),
          RealBranch(i),
          Keyword("text", Ty("Text"), i),
          TimestampTzBranch(i),
          TimestampBranch(i),
          VarcharBranch(i),
          CharBranch(i)>>)

TimeBranch(i) ==
    Bind(tag_no_case("time", i), LAMBDA t :
    Bind(opt_without_time_zone(t.rest), LAMBDA z : Ok(z.rest, Ty("Time"))))

BinaryBranch(i) ==
    Bind(tag_no_case("binary", i), LAMBDA t :
    Bind(opt(delim_u16(t.rest), t.rest), LAMBDA len :
    Bind(whitespace0(len.rest), LAMBDA w : Ok(w.rest, TyLen("Binary", len.val)))))

VarbinaryBranch(i) ==
    Bind(tag_no_case("varbinary", i), LAMBDA t :
    Bind(delim_u16(t.rest), LAMBDA len :
    Bind(whitespace0(len.rest), LAMBDA w : Ok(w.rest, TyLen("Varbinary", len.val)))))

\* the varbit branch committing once it has read "bit": what follows the
\* keyword fails unrecoverably, as under nom::combinator::cut
VarbitBranch_cut(i) ==
    Bind(alt(<<Bind(tag_no_case("varbit", i), LAMBDA v : whitespace0(v.rest)),
               Bind(tag_no_case("bit", i), LAMBDA b :
               Bind(cut(whitespace1(b.rest)), LAMBDA b1 :
               Bind(cut(tag_no_case("varying", b1.rest)), LAMBDA b2 :
                    whitespace0(b2.rest))))>>),
         LAMBDA k :
    Bind(opt(delim_u16(k.rest), k.rest), LAMBDA len : Ok(len.rest, TyLen("Varbit", len.val))))

VarbitBranch(i) ==
    Bind(alt(<<Bind(tag_no_case("varbit", i), LAMBDA v : whitespace0(v.rest)),
               Bind(tag_no_case("bit", i), LAMBDA b :
               Bind(whitespace1(b.rest), LAMBDA b1 :
               Bind(tag_no_case("varying", b1.rest), LAMBDA b2 : whitespace0(b2.rest))))>>),
         LAMBDA k :
    Bind(opt(delim_u16(k.rest), k.rest), LAMBDA len : Ok(len.rest, TyLen("Varbit", len.val))))

type_identifier_second_half(i) ==
    alt(<<TimeBranch(i),
          decimal_or_numeric(i),
          BinaryBranch(i),
          Keyword("blob", Ty("Blob"), i),
          Keyword("longblob", Ty("Longblob"), i),
          Keyword("mediumblob", Ty("Mediumblob"), i),
          Keyword("mediumtext", Ty("Mediumtext"), i),
          Keyword("longtext", Ty("Longtext"), i),
          Keyword("tinyblob", Ty("Tinyblob"), i),
          Keyword("tinytext", Ty("Tinytext"), i),
          VarbinaryBranch(i),
          Keyword("bytea", Ty("ByteArray"), i),
          Keyword("macaddr", Ty("MacAddr"), i),
          Keyword("inet", Ty("Inet"), i),
          Keyword("uuid", Ty("Uuid"), i),
          Keyword("jsonb", Ty("Jsonb"), i),
          Keyword("json", Ty("Json"), i),
          VarbitBranch(i),
          KeywordLen("bit", "Bit", i),
          Keyword("serial", Ty("Serial"), i),
          Keyword("bigserial", Ty("BigSerial"), i)>>)

\* the two halves of the alternation in the opposite order
type_identifier_second_half_first(d, i) ==
    alt(<<type_identifier_second_half(i), type_identifier_first_half(d, i)>>)

\* A SQL type specifier.
type_identifier(d, i) ==
    alt(<<type_identifier_first_half(d, i), type_identifier_second_half(i)>>)


(***************************************************************************)
(* Identifiers and expressions.  The dialect's lexical rules and the       *)
(* expression grammar live outside this file; they are modelled by their   *)
(* contract: an unquoted identifier is a run of letters, digits and '_'    *)
(* not starting with a digit; an expression is a function call, a literal  *)
(* or a column.                                                            *)
(***************************************************************************)
Letters ==
    {SubSeq(LowerCase, k, k) : k \in 1..26} \cup {SubSeq(UpperCase, k, k) : k \in 1..26}

IdentifierBytes == Letters \cup Digits \cup {"_"}

\* an unquoted name
BareIdentifier(i) ==
    IF i = <<>> \/ i[1] \notin Letters \cup {"_"} THEN Err(i, "Tag")
    ELSE Ok(Drop(i, PrefixLen(i, IdentifierBytes)), Take(i, PrefixLen(i, IdentifierBytes)))

\* Dialect::identifier, on unquoted names
identifier(d, i) == BareIdentifier(i)

\* Dialect::function_identifier
function_identifier(d, i) == BareIdentifier(i)

Column(name, table) == [name |-> name, table |-> table]

ExprColumn(c) == [tag |-> "Column", col |-> c]

ExprLiteral(l) == [tag |-> "Literal", lit |-> l]

ExprCall(f) == [tag |-> "Call", fx |-> f]

CountStar == [tag |-> "CountStar"]

Count(expr, distinct) ==
    [tag |-> "Count", expr |-> expr, distinct |-> distinct, count_nulls |-> FALSE]

Sum(expr, distinct) == [tag |-> "Sum", expr |-> expr, distinct |-> distinct]

Avg(expr, distinct) == [tag |-> "Avg", expr |-> expr, distinct |-> distinct]

Max(expr) == [tag |-> "Max", expr |-> expr]

Min(expr) == [tag |-> "Min", expr |-> expr]

GroupConcat(expr, separator) ==
    [tag |-> "GroupConcat", expr |-> expr, separator |-> separator]

Call(name, arguments) == [tag |-> "Call", name |-> name, arguments |-> arguments]

(***************************************************************************)
(* The function-call and reference grammars                                *)
(***************************************************************************)
\* a column identifier whose dot admits no whitespace on either side
column_identifier_no_alias_tight(d, i) ==
    Bind(opt(Bind(identifier(d, i), LAMBDA t :
             Bind(tag(".", t.rest), LAMBDA dot : Ok(dot.rest, t.val))), i), LAMBDA table :
    Bind(identifier(d, table.rest), LAMBDA name : Ok(name.rest, Column(name.val, table.val))))

\* Parses a SQL column identifier in the table.column format
column_identifier_no_alias(d, i) ==
    Bind(opt(Bind(identifier(d, i), LAMBDA t :
             Bind(whitespace0(t.rest), LAMBDA a :
             Bind(tag(".", a.rest), LAMBDA dot :
             Bind(whitespace0(dot.rest), LAMBDA b : Ok(b.rest, t.val))))), i), LAMBDA table :
    Bind(identifier(d, table.rest), LAMBDA name : Ok(name.rest, Column(name.val, table.val))))

RECURSIVE expression(_, _)

\* the arguments of an aggregation with the distinct keyword recognised
\* whether or not whitespace follows it
agg_function_arguments_no_space(d, i) ==
    Bind(opt(Bind(tag_no_case("distinct", i), LAMBDA k : whitespace0(k.rest)), i),
         LAMBDA distinct :
    Bind(expression(d, distinct.rest), LAMBDA args :
    Ok(args.rest, <<args.val, IsSome(distinct.val)>>)))

\* Parses the arguments for an aggregation function, and also returns
\* whether the distinct flag is present.
agg_function_arguments(d, i) ==
    Bind(opt(Bind(tag_no_case("distinct", i), LAMBDA k : whitespace1(k.rest)), i),
         LAMBDA distinct :
    Bind(expression(d, distinct.rest), LAMBDA args :
    Ok(args.rest, <<args.val, IsSome(distinct.val)>>)))

\* the separator clause giving a comma when no string literal follows
group_concat_fx_helper_comma(d, i) ==
    Bind(whitespace0(i), LAMBDA a :
    Bind(tag_no_case("separator", a.rest), LAMBDA k :
    Bind(whitespace0(k.rest), LAMBDA b :
    Bind(opt(string_literal(d, b.rest), b.rest), LAMBDA sep :
    Bind(whitespace0(sep.rest), LAMBDA c :
    Ok(c.rest, IF IsSome(sep.val) THEN sep.val[1] ELSE <<",">>))))))

group_concat_fx_helper(d, i) ==
    Bind(whitespace0(i), LAMBDA a :
    Bind(tag_no_case("separator", a.rest), LAMBDA k :
    Bind(whitespace0(k.rest), LAMBDA b :
    Bind(opt(string_literal(d, b.rest), b.rest), LAMBDA sep :
    Bind(whitespace0(sep.rest), LAMBDA c :
    Ok(c.rest, IF IsSome(sep.val) THEN sep.val[1] ELSE <<>>))))))

group_concat_fx(d, i) ==
    Bind(column_identifier_no_alias(d, i), LAMBDA col :
    Bind(opt(group_concat_fx_helper(d, col.rest), col.rest), LAMBDA sep :
    Ok(sep.rest, <<col.val, sep.val>>)))

agg_fx_args(d, i) ==
    Bind(tag("(", i), LAMBDA o :
    Bind(agg_function_arguments(d, o.rest), LAMBDA args :
    Bind(tag(")", args.rest), LAMBDA c : Ok(c.rest, args.val))))

\* delimited(whitespace0, expression(dialect), whitespace0)
FxArg(d, i) ==
    Bind(whitespace0(i), LAMBDA a :
    Bind(expression(d, a.rest), LAMBDA e :
    Bind(whitespace0(e.rest), LAMBDA b : Ok(b.rest, e.val))))

\* separated_list0(tag(","), argument) after a first argument
RECURSIVE FxArgsTail(_, _, _)
FxArgsTail(d, i, acc) ==
    Bind(opt(Bind(tag(",", i), LAMBDA c : FxArg(d, c.rest)), i), LAMBDA e :
    IF IsSome(e.val) THEN FxArgsTail(d, e.rest, Append(acc, e.val[1])) ELSE Ok(i, acc))

delim_fx_args(d, i) ==
    Bind(tag("(", i), LAMBDA o :
    Bind(Bind(opt(FxArg(d, o.rest), o.rest), LAMBDA e :
         IF IsSome(e.val) THEN FxArgsTail(d, e.rest, <<e.val[1]>>) ELSE Ok(o.rest, <<>>)),
         LAMBDA args :
    Bind(tag(")", args.rest), LAMBDA c : Ok(c.rest, args.val))))

\* an aggregate keyword after which a failure is final
AggArgs_cut(kw, d, i) == Bind(tag_no_case(kw, i), LAMBDA k : cut(agg_fx_args(d, k.rest)))

\* preceded(tag_no_case(kw), agg_fx_args(dialect))
AggArgs(kw, d, i) == Bind(tag_no_case(kw, i), LAMBDA k : agg_fx_args(d, k.rest))

\* the group_concat branch defaulting to the empty separator
GroupConcatBranch_default_empty(d, i) ==
    Bind(tag_no_case("group_concat", i), LAMBDA k :
    Bind(tag("(", k.rest), LAMBDA o :
    Bind(group_concat_fx(d, o.rest), LAMBDA spec :
    Bind(tag(")", spec.rest), LAMBDA c :
    Ok(c.rest, GroupConcat(ExprColumn(spec.val[1]),
                           IF IsSome(spec.val[2]) THEN spec.val[2][1] ELSE <<>>))))))

GroupConcatBranch(d, i) ==
    Bind(tag_no_case("group_concat", i), LAMBDA k :
    Bind(tag("(", k.rest), LAMBDA o :
    Bind(group_concat_fx(d, o.rest), LAMBDA spec :
    Bind(tag(")", spec.rest), LAMBDA c :
    Ok(c.rest, GroupConcat(ExprColumn(spec.val[1]),
                           IF IsSome(spec.val[2]) THEN spec.val[2][1] ELSE <<",">>))))))

CallBranch(d, i) ==
    Bind(function_identifier(d, i), LAMBDA name :
    Bind(whitespace0(name.rest), LAMBDA w :
    Bind(delim_fx_args(d, w.rest), LAMBDA arguments :
    Ok(arguments.rest, Call(name.val, arguments.val)))))

\* column_function with MAX and MIN rejecting the distinct keyword
column_function_plain_max_min(d, i) ==
    alt(<<Keyword("count(*)", CountStar, i),
          Bind(AggArgs("count", d, i), LAMBDA a : Ok(a.rest, Count(a.val[1], a.val[2]))),
          Bind(AggArgs("sum", d, i), LAMBDA a : Ok(a.rest, Sum(a.val[1], a.val[2]))),
          Bind(AggArgs("avg", d, i), LAMBDA a : Ok(a.rest, Avg(a.val[1], a.val[2]))),
          Bind(AggArgs("max", d, i), LAMBDA a :
               IF a.val[2] THEN Err(i, "Verify") ELSE Ok(a.rest, Max(a.val[1]))),
          Bind(AggArgs("min", d, i), LAMBDA a :
               IF a.val[2] THEN Err(i, "Verify") ELSE Ok(a.rest, Min(a.val[1]))),
          GroupConcatBranch(d, i),
          CallBranch(d, i)>>)

column_function(d, i) ==
    alt(<<Keyword("count(*)", CountStar, i),
          Bind(AggArgs("count", d, i), LAMBDA a : Ok(a.rest, Count(a.val[1], a.val[2]))),
          Bind(AggArgs("sum", d, i), LAMBDA a : Ok(a.rest, Sum(a.val[1], a.val[2]))),
          Bind(AggArgs("avg", d, i), LAMBDA a : Ok(a.rest, Avg(a.val[1], a.val[2]))),
          Bind(AggArgs("max", d, i), LAMBDA a : Ok(a.rest, Max(a.val[1]))),
          Bind(AggArgs("min", d, i), LAMBDA a : Ok(a.rest, Min(a.val[1]))),
          GroupConcatBranch(d, i),
          CallBranch(d, i)>>)

\* crate::expression::expression: a function call, a literal or a column
expression(d, i) ==
    alt(<<Bind(column_function(d, i), LAMBDA f : Ok(f.rest, ExprCall(f.val))),
          Bind(literal(d, i), LAMBDA l : Ok(l.rest, ExprLiteral(l.val))),
          Bind(column_identifier_no_alias(d, i), LAMBDA c : Ok(c.rest, ExprColumn(c.val)))>>)


U64Max == "18446744073709551615"

\* map_res(map_res(digit1, str::from_utf8), u64::from_str)
digit_as_u64(i) ==
    Bind(digit1(i), LAMBDA n :
    IF FitsMax(n.val, U64Max) THEN Ok(n.rest, StripZeros(n.val)) ELSE Err(i, "MapRes"))

FieldNumeric(n) == [tag |-> "Numeric", n |-> n]

FieldExpression(e) == [tag |-> "Expression", expr |-> e]

\* field_reference trying the ordinal first whatever the dialect
field_reference_ordinal_first(d, i) ==
    alt(<<Bind(digit_as_u64(i), LAMBDA n : Ok(n.rest, FieldNumeric(n.val))),
          Bind(expression(d, i), LAMBDA e : Ok(e.rest, FieldExpression(e.val)))>>)

field_reference(d, i) ==
    IF d = "PostgreSQL"
    THEN Bind(expression(d, i), LAMBDA e : Ok(e.rest, FieldExpression(e.val)))
    ELSE alt(<<Bind(digit_as_u64(i), LAMBDA n : Ok(n.rest, FieldNumeric(n.val))),
               Bind(expression(d, i), LAMBDA e : Ok(e.rest, FieldExpression(e.val)))>>)


(***************************************************************************)
(* Statement terminators                                                   *)
(***************************************************************************)
\* nom::character::complete::line_ending: "\n" or "\r\n"
line_ending(i) ==
    alt(<<tag("\n", i), tag("\r\n", i)>>)

eof(input) ==
    IF Len(input) = 0 THEN Ok(input, input) ELSE Err(input, "Eof")

\* the unit value ()
Unit == <<>>

\* a statement terminator that does not accept the end of the input
statement_terminator_no_eof(i) ==
    Bind(whitespace0(i), LAMBDA a :
    Bind(alt(<<tag(";", a.rest), line_ending(a.rest)>>), LAMBDA t :
    Bind(whitespace0(t.rest), LAMBDA b : Ok(b.rest, Unit))))

\* Parse a terminator that ends a SQL statement.
statement_terminator(i) ==
    Bind(whitespace0(i), LAMBDA a :
    Bind(alt(<<tag(";", a.rest), line_ending(a.rest), eof(a.rest)>>), LAMBDA t :
    Bind(whitespace0(t.rest), LAMBDA b : Ok(b.rest, Unit))))

(***************************************************************************)
(* Table keys and their rendering                                          *)
(***************************************************************************)
\* the byte 0x60 (grave accent), one element of a text
Backtick == "0x60"

Quoted(name) == <<Backtick>> \o name \o <<Backtick>>

\* Option<SqlIdentifier>::as_deref().unwrap_or("")
UnwrapOrEmpty(o) == IF IsSome(o) THEN o[1] ELSE <<>>

ReferentialActions == {"Cascade", "SetNull", "Restrict", "NoAction", "SetDefault"}

DisplayReferentialAction(a) ==
    CASE a = "Cascade" -> Chars("CASCADE")
      [] a = "SetNull" -> Chars("SET NULL")
      [] a = "Restrict" -> Chars("RESTRICT")
      [] a = "NoAction" -> Chars("NO ACTION")
      [] a = "SetDefault" -> Chars("SET DEFAULT")

\* crate::table::Table, by its name
Table(name) == [name |-> name]

\* <Table as Display>::fmt
DisplayTable(t) == t.name

ForeignKey(name, index_name, columns, target_table, target_columns, on_delete, on_update) ==
    [tag |-> "ForeignKey", name |-> name, index_name |-> index_name, columns |-> columns,
     target_table |-> target_table, target_columns |-> target_columns,
     on_delete |-> on_delete, on_update |-> on_update]

\* columns.iter().map(|c| format!("`{}`", c.name)).join(", ")
DisplayColumns(columns) ==
    Join([k \in 1..Len(columns) |-> Quoted(columns[k].name)], Chars(", "))

\* the ForeignKey arm writing ON UPDATE before ON DELETE
DisplayForeignKey_update_first(k) ==
    Chars("CONSTRAINT ") \o Quoted(UnwrapOrEmpty(k.name)) \o Chars(" FOREIGN KEY ")
      \o UnwrapOrEmpty(k.index_name) \o Chars("(") \o DisplayColumns(k.columns)
      \o Chars(") REFERENCES ") \o DisplayTable(k.target_table) \o Chars(" (")
      \o DisplayColumns(k.target_columns) \o Chars(")")
      \o (IF IsSome(k.on_update)
          THEN Chars(" ON UPDATE ") \o DisplayReferentialAction(k.on_update[1]) ELSE <<>>)
      \o (IF IsSome(k.on_delete)
          THEN Chars(" ON DELETE ") \o DisplayReferentialAction(k.on_delete[1]) ELSE <<>>)

\* impl Display for TableKey, the ForeignKey arm
DisplayForeignKey(k) ==
    Chars("CONSTRAINT ") \o Quoted(UnwrapOrEmpty(k.name)) \o Chars(" FOREIGN KEY ")
      \o UnwrapOrEmpty(k.index_name) \o Chars("(") \o DisplayColumns(k.columns)
      \o Chars(") REFERENCES ") \o DisplayTable(k.target_table) \o Chars(" (")
      \o DisplayColumns(k.target_columns) \o Chars(")")
      \o (IF IsSome(k.on_delete)
          THEN Chars(" ON DELETE ") \o DisplayReferentialAction(k.on_delete[1]) ELSE <<>>)
      \o (IF IsSome(k.on_update)
          THEN Chars(" ON UPDATE ") \o DisplayReferentialAction(k.on_update[1]) ELSE <<>>)

(***************************************************************************)
(* Field-definition lists                                                  *)
(***************************************************************************)
\* Whitespace surrounded optionally on either side by a comma
ws_sep_comma(i) ==
    Bind(whitespace0(i), LAMBDA a :
    Bind(tag(",", a.rest), LAMBDA c :
    Bind(whitespace0(c.rest), LAMBDA b : Ok(b.rest, c.val))))

\* Parse rule for AS-based aliases for SQL entities.
as_alias(d, i) ==
    Bind(whitespace1(i), LAMBDA w :
    Bind(opt(Bind(tag_no_case("as", w.rest), LAMBDA k : whitespace1(k.rest)), w.rest),
         LAMBDA k :
    identifier(d, k.rest)))

TableOf(name, alias) == [name |-> name, alias |-> alias, schema |-> None]

\* Parse a reference to a named table, with an optional alias
table_reference(d, i) ==
    Bind(identifier(d, i), LAMBDA name :
    Bind(opt(as_alias(d, name.rest), name.rest), LAMBDA alias :
    Ok(alias.rest, TableOf(name.val, alias.val))))

FieldAll == [tag |-> "All"]

FieldAllInTable(name) == [tag |-> "AllInTable", name |-> name]

FieldDefinitionExpression(expr, alias) ==
    [tag |-> "Expression", expr |-> expr, alias |-> alias]

expression_field(d, i) ==
    Bind(expression(d, i), LAMBDA expr :
    Bind(opt(as_alias(d, expr.rest), expr.rest), LAMBDA alias :
    Ok(alias.rest, FieldDefinitionExpression(expr.val, alias.val))))

\* one entry of the list: '*', 'table.*' or an expression with its alias
FieldDefinition(d, i) ==
    alt(<<Keyword("*", FieldAll, i),
          Bind(table_reference(d, i), LAMBDA t :
          Bind(tag(".*", t.rest), LAMBDA s : Ok(s.rest, FieldAllInTable(t.val.name)))),
          expression_field(d, i)>>)

\* separated_list0(ws_sep_comma, entry) after a first entry
RECURSIVE FieldDefinitionTail(_, _, _)
FieldDefinitionTail(d, i, acc) ==
    Bind(opt(Bind(ws_sep_comma(i), LAMBDA c : FieldDefinition(d, c.rest)), i), LAMBDA e :
    IF IsSome(e.val) THEN FieldDefinitionTail(d, e.rest, Append(acc, e.val[1]))
    ELSE Ok(i, acc))

FieldDefinitionList(d, i) ==
    Bind(opt(FieldDefinition(d, i), i), LAMBDA e :
    IF IsSome(e.val) THEN FieldDefinitionTail(d, e.rest, <<e.val[1]>>) ELSE Ok(i, <<>>))

\* the list without the optional trailing comma
field_definition_expr_no_trailing(d, i) == FieldDefinitionList(d, i)

\* Parse list of column/field definitions.
field_definition_expr(d, i) ==
    Bind(FieldDefinitionList(d, i), LAMBDA l :
    Bind(opt(ws_sep_comma(l.rest), l.rest), LAMBDA c : Ok(c.rest, l.val)))

(***************************************************************************)
(* opt_delimited over tag parsers                                          *)
(***************************************************************************)
\* opt_delimited that also takes the closing delimiter after a bare body
opt_delimited_takes_close(first, second, third, input) ==
    LET s == tag(second, input)
    IN  IF s.ok THEN Ok(opt(tag(third, s.rest), s.rest).rest, s.val)
        ELSE Bind(tag(first, input), LAMBDA a :
             Bind(tag(second, a.rest), LAMBDA o :
             Bind(tag(third, o.rest), LAMBDA c : Ok(c.rest, o.val))))

\* opt_delimited(tag(first), tag(second), tag(third)): second on its own,
\* and failing that delimited(first, second, third) on the same input
opt_delimited(first, second, third, input) ==
    LET s == tag(second, input)
    IN  IF s.ok THEN s
        ELSE Bind(tag(first, input), LAMBDA a :
             Bind(tag(second, a.rest), LAMBDA o :
             Bind(tag(third, o.rest), LAMBDA c : Ok(c.rest, o.val))))

(***************************************************************************)
(* Rendering of SqlType                                                    *)
(***************************************************************************)
\* the variants written as a bare keyword
UnitTypeNames ==
    [Bool |-> "BOOL", Blob |-> "BLOB", Longblob |-> "LONGBLOB", Mediumblob |-> "MEDIUMBLOB",
     Tinyblob |-> "TINYBLOB", Double |-> "DOUBLE", Float |-> "FLOAT", Real |-> "REAL",
     Tinytext |-> "TINYTEXT", Mediumtext |-> "MEDIUMTEXT", Longtext |-> "LONGTEXT",
     Text |-> "TEXT", Date |-> "DATE", Time |-> "TIME", Timestamp |-> "TIMESTAMP",
     TimestampTz |-> "TIMESTAMP WITH TIME ZONE", Json |-> "JSON", Jsonb |-> "JSONB",
     ByteArray |-> "BYTEA", MacAddr |-> "MACADDR", Inet |-> "INET", Uuid |-> "UUID",
     Serial |-> "SERIAL", BigSerial |-> "BIGSERIAL"]

\* the variants written as a keyword and an optional length
LengthTypeNames ==
    [Char |-> "CHAR", Varchar |-> "VARCHAR", Int |-> "INT", Bigint |-> "BIGINT",
     Tinyint |-> "TINYINT", Smallint |-> "SMALLINT", DateTime |-> "DATETIME",
     Binary |-> "BINARY", Bit |-> "BIT", Varbit |-> "VARBIT"]

\* the variants written as a keyword, an optional length and UNSIGNED
UnsignedTypeNames ==
    [UnsignedInt |-> "INT", UnsignedBigint |-> "BIGINT", UnsignedTinyint |-> "TINYINT",
     UnsignedSmallint |-> "SMALLINT"]

\* the decimal digits of a number, as {} formats an unsigned integer
RECURSIVE NatDigits(_)
NatDigits(n) ==
    IF n < 10 THEN <<DigitChar(n)>> ELSE Append(NatDigits(n \div 10), DigitChar(n % 10))

write_with_len(name, len) ==
    Chars(name) \o (IF IsSome(len) THEN Chars("(") \o NatDigits(len[1]) \o Chars(")")
                    ELSE <<>>)

\* impl Display for SqlType, with UNSIGNED written before the keyword
DisplaySqlType_unsigned_first(t) ==
    CASE t.tag \in DOMAIN UnitTypeNames -> Chars(UnitTypeNames[t.tag])
      [] t.tag \in DOMAIN LengthTypeNames -> write_with_len(LengthTypeNames[t.tag], t.len)
      [] t.tag \in DOMAIN UnsignedTypeNames
           -> Chars("UNSIGNED ") \o write_with_len(UnsignedTypeNames[t.tag], t.len)
      [] t.tag = "Numeric"
           -> IF ~IsSome(t.prec) THEN Chars("NUMERIC")
              ELSE IF IsSome(t.prec[1][2])
              THEN Chars("NUMERIC(") \o NatDigits(t.prec[1][1]) \o Chars(", ")
                     \o NatDigits(t.prec[1][2][1]) \o Chars(")")
              ELSE Chars("NUMERIC(") \o NatDigits(t.prec[1][1]) \o Chars(")")
      [] t.tag = "Varbinary" -> Chars("VARBINARY(") \o NatDigits(t.len) \o Chars(")")
      [] t.tag = "Enum"
           -> Chars("ENUM(")
                \o Join([k \in 1..Len(t.variants) |-> DisplayLiteral(t.variants[k])], Chars(", "))
                \o Chars(")")
      [] t.tag = "Decimal"
           -> Chars("DECIMAL(") \o NatDigits(t.m) \o Chars(", ") \o NatDigits(t.d) \o Chars(")")

\* impl Display for SqlType
DisplaySqlType(t) ==
    CASE t.tag \in DOMAIN UnitTypeNames -> Chars(UnitTypeNames[t.tag])
      [] t.tag \in DOMAIN LengthTypeNames -> write_with_len(LengthTypeNames[t.tag], t.len)
      [] t.tag \in DOMAIN UnsignedTypeNames
           -> write_with_len(UnsignedTypeNames[t.tag], t.len) \o Chars(" UNSIGNED")
      [] t.tag = "Numeric"
           -> IF ~IsSome(t.prec) THEN Chars("NUMERIC")
              ELSE IF IsSome(t.prec[1][2])
              THEN Chars("NUMERIC(") \o NatDigits(t.prec[1][1]) \o Chars(", ")
                     \o NatDigits(t.prec[1][2][1]) \o Chars(")")
              ELSE Chars("NUMERIC(") \o NatDigits(t.prec[1][1]) \o Chars(")")
      [] t.tag = "Varbinary" -> Chars("VARBINARY(") \o NatDigits(t.len) \o Chars(")")
      [] t.tag = "Enum"
           -> Chars("ENUM(")
                \o Join([k \in 1..Len(t.variants) |-> DisplayLiteral(t.variants[k])], Chars(", "))
                \o Chars(")")
      [] t.tag = "Decimal"
           -> Chars("DECIMAL(") \o NatDigits(t.m) \o Chars(", ") \o NatDigits(t.d) \o Chars(")")

(***************************************************************************)
(* Bounded inputs                                                          *)
(***************************************************************************)
\* precision tags 0..MaxSmallPrecision and the ones around the cap and the top
MaxSmallPrecision == 3

Precisions == (0..MaxSmallPrecision) \cup {29, 30, 31, 255}

\* finite values with an exact short binary fraction; 2^-32 has 32 fraction
\* digits, more than the cap
FiniteValues ==
    {Finite(FALSE, "0", ""), Finite(FALSE, "1", "5"), Finite(TRUE, "1", "5"),
     Finite(FALSE, "10", ""), Finite(FALSE, "100", ""), Finite(FALSE, "0", "75"),
     Finite(FALSE, "0", "375"), Finite(FALSE, "9", "5"), Finite(FALSE, "12", ""),
     Finite(FALSE, "0", "00000000023283064365386962890625")}

SpecialValues ==
    {NaN(FALSE, 1), NaN(FALSE, 2), NaN(TRUE, 1), Infinity(FALSE), Infinity(TRUE),
     Finite(TRUE, "0", "")}

Reals == {Double(v, p) : v \in FiniteValues \cup SpecialValues, p \in Precisions}

\* the values compared for equality and hash
ComparedReals ==
    {Double(v, p) : v \in SpecialValues \cup {Finite(FALSE, "0", ""), Finite(FALSE, "1", "5")},
                    p \in {0, 255}}

I64MinMagnitude == "9223372036854775808"

Integers64 ==
    {LitInteger(FALSE, Chars("0")), LitInteger(FALSE, Chars("1")), LitInteger(TRUE, Chars("1")),
     LitInteger(FALSE, Chars("42")), LitInteger(FALSE, Chars(I64Max)),
     LitInteger(TRUE, Chars(I64Max)), LitInteger(TRUE, Chars(I64MinMagnitude))}

MaxBlobLen == 2

BlobBytes == {0, 10, 18, 171, 255}

Blobs ==
    {LitBlob(b) : b \in UNION {[1..n -> BlobBytes] : n \in 0..MaxBlobLen}}

Strings ==
    {LitString(Chars(s)) : s \in {"", "a", "ab", "'", "\\", "a'b", "1", "null", "\""}}

Placeholders ==
    {LitPlaceholder(QuestionMark)}
      \cup {LitPlaceholder(DollarNumber(Chars(n))) : n \in {"0", "1", U32Max}}
      \cup {LitPlaceholder(ColonNumber(Chars(n))) : n \in {"0", "7", U32Max}}

\* the literals the round-trip law covers, with the parsers that are modelled
RoundTripLiterals ==
    {LitNull, LitBoolean(TRUE), LitBoolean(FALSE), LitCurrentTime, LitCurrentDate,
     LitCurrentTimestamp}
      \cup Integers64 \cup Blobs \cup Strings \cup Placeholders

Literals ==
    RoundTripLiterals \cup {LitDouble(r) : r \in Reals} \cup {LitFloat(r) : r \in Reals}


\* texts shaped sign digits '.' digits suffix
FloatSigns == {"", "-"}

FloatInts == {"0", "1", "12", "007"}

FloatFracs == {"0", "5", "50", "75", "375", "00"}

FloatSuffixes == {"", "abc", " ", ".2", ","}

FloatText(sign, int, frac, suffix) == Chars(sign \o int \o "." \o frac \o suffix)

FloatInputs ==
    {FloatText(s, m, f, x) : s \in FloatSigns, m \in FloatInts, f \in FloatFracs,
                             x \in FloatSuffixes}

\* fraction lengths: the short ones and the ones around the width of a u8
MaxShortFraction == 3

FractionLengths == (1..MaxShortFraction) \cup {255, 256, 257, 300}

LongFractionText(n) == Chars("1.") \o Zeros(n)

LongFractionInputs == {LongFractionText(n) : n \in FractionLengths}

\* texts shaped sign digits suffix, the suffix not continuing a float
IntegerDigits ==
    {"0", "7", "12", "007", "9223372036854775806", I64Max, I64MinMagnitude,
     "9223372036854775809", "18446744073709551616", "18446744073709551617",
     "99999999999999999999", "00000000000000000000000012"}

IntegerSuffixes == {"", ".", ".x", "abc", " .5", ","}

IntegerText(sign, digits, suffix) == Chars(sign \o digits \o suffix)

IntegerInputs ==
    {IntegerText(s, m, x) : s \in FloatSigns, m \in IntegerDigits, x \in IntegerSuffixes}

OtherLiteralInputs ==
    {Chars(s) : s \in {"true", "TRUE", "tRuE", "false", "FALSE", "null", "NULL",
                       "CURRENT_TIMESTAMP", "current_time", "CURRENT_DATE", "?", "$1", ":7",
                       "$4294967296", "'a'", "\"a\"", "'a''b'", "", "-", ".5", "x"}}

\* every upper/lower-case spelling of a keyword given in both cases
CaseSpellings(lower, upper) ==
    {s \in [1..Len(lower) -> {lower[k] : k \in 1..Len(lower)}
                               \cup {upper[k] : k \in 1..Len(upper)}] :
        \A k \in 1..Len(lower) : s[k] \in {lower[k], upper[k]}}

TrueSpellings == CaseSpellings(Chars("true"), Chars("TRUE"))

FalseSpellings == CaseSpellings(Chars("false"), Chars("FALSE"))

BooleanInputs == TrueSpellings \cup FalseSpellings

\* the CURRENT_* keywords: a text, the literal it denotes and what is left
CurrentKeywordTexts ==
    {<<"CURRENT_TIMESTAMP", LitCurrentTimestamp, "">>,
     <<"current_timestamp", LitCurrentTimestamp, "">>,
     <<"Current_TimeStamp", LitCurrentTimestamp, "">>,
     <<"CURRENT_TIMESTAMP, 1", LitCurrentTimestamp, ", 1">>,
     <<"CURRENT_TIMESTAMPS", LitCurrentTimestamp, "S">>,
     <<"CURRENT_TIME", LitCurrentTime, "">>,
     <<"current_time", LitCurrentTime, "">>,
     <<"CURRENT_TIME)", LitCurrentTime, ")">>,
     <<"CURRENT_TIMES", LitCurrentTime, "S">>,
     <<"CURRENT_TIMESTAM", LitCurrentTime, "STAM">>,
     <<"CURRENT_DATE", LitCurrentDate, "">>,
     <<"current_date ", LitCurrentDate, " ">>}

CurrentKeywordInputs == {Chars(k[1]) : k \in CurrentKeywordTexts}

LiteralInputs ==
    FloatInputs \cup LongFractionInputs \cup IntegerInputs \cup OtherLiteralInputs
      \cup BooleanInputs \cup CurrentKeywordInputs


TypeKeywords ==
    {"tinyint", "smallint", "integer", "int", "bigint", "boolean", "bool", "datetime",
     "date", "double", "double precision", "numeric", "float", "real", "text", "timestamp",
     "varchar", "character varying", "character  varying", "char", "time", "decimal",
     "binary", "blob", "longblob", "mediumblob", "mediumtext", "longtext", "tinyblob",
     "tinytext", "varbinary", "bytea", "macaddr", "inet", "uuid", "jsonb", "json", "varbit",
     "bit varying", "bit", "serial", "bigserial", "INTEGER", "DateTime", "TIMESTAMP",
     "BOOLEAN", "JSONB", "BIT VARYING", "Character Varying", "TINYTEXT", "MediumText",
     "LONGTEXT", "character", "unknown", "in", ""}

TypeSuffixes ==
    {"", "(16)", "(10,20)", "(65535)", "(70000)", "(300)", " unsigned", "(16) unsigned",
     " signed", " with time zone", " without time zone", " (5)   with time zone",
     "(5) without time zone", " binary", "xyz", "(", " ", ")", ", x"}

EnumInputs == {"enum('a','b')", "enum(1, 2)", "enum()", "ENUM('a' , 1.5) ", "enum('a'"}

\* the precisions and scales written after DECIMAL and NUMERIC
MaxSmallWidth == 2

WrittenPrecisions == (0..MaxSmallWidth) \cup {10, 30, 31, 32, 255, 256, 65535, 65536}

WrittenScales == (0..MaxSmallWidth) \cup {20, 31, 255, 256}

DecimalKeywords == {"decimal", "DECIMAL", "Decimal"}

NumericKeywords == {"numeric", "NUMERIC", "Numeric"}

\* the parenthesised precision, with or without a scale; sep is the text
\* between the precision's comma and the scale
PrecisionOnly(p) == <<"(">> \o NatDigits(p) \o <<")">>

PrecisionScale(p, sep, s) == <<"(">> \o NatDigits(p) \o Chars(sep) \o NatDigits(s) \o <<")">>

ScaleSeparators == {",", ", "}

PrecisionTexts ==
    {<<>>} \cup {PrecisionOnly(p) : p \in WrittenPrecisions}
      \cup {PrecisionScale(p, sep, s) : p \in WrittenPrecisions, sep \in ScaleSeparators,
                                        s \in WrittenScales}

\* TIMESTAMP followed by an optional fractional-seconds precision and an
\* optional time zone clause
TimestampKeywords == {"timestamp", "TIMESTAMP", "TimeStamp"}

TimestampPrecisions == {"", "(5)", " (5)", "(0)", "  (123456)"}

WithTimeZone == {" with time zone", "   WITH  TIME\tZONE", " With Time Zone"}

WithoutTimeZone == {"", " without time zone", "   WITHOUT  TIME\tZONE"}

TimestampInputs ==
    {Chars(k \o p \o z) : k \in TimestampKeywords, p \in TimestampPrecisions,
                          z \in WithTimeZone \cup WithoutTimeZone}

TypeInputs ==
    {Chars(k \o x) : k \in TypeKeywords, x \in TypeSuffixes}
      \cup {Chars(e) : e \in EnumInputs}
      \cup TimestampInputs
      \cup {Chars(k) \o t : k \in DecimalKeywords \cup NumericKeywords, t \in PrecisionTexts}

\* GROUP_CONCAT calls: keyword, column, separator clause with the separator
\* it writes
GroupConcatKeywords == {"group_concat", "GROUP_CONCAT", "Group_Concat"}

ColumnTexts ==
    {<<"x", Column(Chars("x"), None)>>,
     <<"t.x", Column(Chars("x"), Some(Chars("t")))>>,
     <<"t . x", Column(Chars("x"), Some(Chars("t")))>>}

SeparatorClauses ==
    {<<" separator ', '", Chars(", ")>>,
     <<"  SEPARATOR  ';' ", Chars(";")>>,
     <<" separator'a''b'", Chars("a'b")>>,
     <<" Separator ''", <<>>>>}

GroupConcatText(k, c, s) == Chars(k \o "(" \o c \o s \o ")")

\* separator clauses without a string literal
BareSeparatorClauses == {" separator", " SEPARATOR ", "  Separator\t", "\tseparator  "}

GroupConcatInputs ==
    {GroupConcatText(k, c[1], s) : k \in GroupConcatKeywords, c \in ColumnTexts,
                                   s \in BareSeparatorClauses}
      \cup {GroupConcatText(k, c[1], s[1]) : k \in GroupConcatKeywords, c \in ColumnTexts,
                                            s \in SeparatorClauses}
      \cup {GroupConcatText(k, c[1], "") : k \in GroupConcatKeywords, c \in ColumnTexts}

\* generic calls: a name, whitespace, and arguments each padded with
\* whitespace on either side
NonAggregateNames == {"coalesce", "counter", "summary", "maximum", "min_of", "avgs", "f"}

NameGaps == {"", " ", " \t"}

ArgumentTexts ==
    [a |-> ExprColumn(Column(Chars("a"), None)),
     b |-> ExprColumn(Column(Chars("b"), None)),
     c |-> ExprColumn(Column(Chars("c"), None)),
     one |-> ExprLiteral(LitInteger(FALSE, Chars("1"))),
     str |-> ExprLiteral(LitString(Chars("s"))),
     col |-> ExprColumn(Column(Chars("c"), Some(Chars("t"))))]

ArgumentSource(a) ==
    CASE a = "one" -> "1" [] a = "str" -> "'s'" [] a = "col" -> "t.c" [] OTHER -> a

MaxArguments == 3

ArgumentNames == <<"a", "b", "c">>

ArgumentLists ==
    {[j \in 1..n |-> ArgumentNames[((j - 1) % 3) + 1]] : n \in 1..MaxArguments}
      \cup {<<"one", "str", "col">>, <<"col", "a">>}

ArgumentPads == {<<"", "">>, <<" ", "">>, <<"", " ">>, <<" \t", "  ">>}

RECURSIVE ArgumentsText(_, _)
ArgumentsText(l, pad) ==
    IF l = <<>> THEN <<>>
    ELSE Chars(pad[1] \o ArgumentSource(l[1]) \o pad[2])
           \o (IF Len(l) = 1 THEN <<>> ELSE <<",">> \o ArgumentsText(Tail(l), pad))

CallText(name, gap, l, pad) ==
    Chars(name \o gap \o "(") \o ArgumentsText(l, pad) \o <<")">>

CallInputs ==
    {CallText(n, g, l, p) : n \in NonAggregateNames, g \in NameGaps, l \in ArgumentLists,
                            p \in ArgumentPads}
      \cup {CallText(n, g, <<>>, <<"", "">>) : n \in NonAggregateNames, g \in NameGaps}

\* COUNT, SUM and AVG calls with and without DISTINCT
AggregateKeywords ==
    {<<"count", "Count">>, <<"COUNT", "Count">>, <<"sum", "Sum">>, <<"Sum", "Sum">>,
     <<"avg", "Avg">>, <<"AVG", "Avg">>}

DistinctPrefixes == {"distinct ", "DISTINCT  ", "Distinct\t"}

AggregateArguments ==
    {<<"x", ExprColumn(Column(Chars("x"), None))>>,
     <<"t.x", ExprColumn(Column(Chars("x"), Some(Chars("t"))))>>,
     <<"1", ExprLiteral(LitInteger(FALSE, Chars("1")))>>,
     <<"distinctx", ExprColumn(Column(Chars("distinctx"), None))>>}

AggregateText(k, p, a) == Chars(k \o "(" \o p \o a \o ")")

AggregateInputs ==
    {AggregateText(k[1], p, a[1]) : k \in AggregateKeywords, p \in DistinctPrefixes \cup {""},
                                    a \in AggregateArguments}

\* MAX and MIN calls with and without DISTINCT
ExtremumKeywords ==
    {<<"max", "Max">>, <<"MAX", "Max">>, <<"min", "Min">>, <<"Min", "Min">>}

ExtremumInputs ==
    {AggregateText(k[1], p, a[1]) : k \in ExtremumKeywords, p \in DistinctPrefixes \cup {""},
                                    a \in AggregateArguments}

CountStarInputs == {Chars(s) : s \in {"count(*)", "COUNT(*)", "Count(*)"}}

OtherFunctionInputs ==
    {Chars(s) : s \in {"max(min(foo))", "max(x)", "MIN(t.x)", "count (x)", "count(a,b)",
                       "count( x)", "count(x", "count (*)", "group_concat(x )", "f( )",
                       "group_concat(x separator)", "sum(distinct x)y", "", "(", "x"}}

FunctionInputs ==
    GroupConcatInputs \cup CallInputs \cup AggregateInputs \cup ExtremumInputs
      \cup CountStarInputs
      \cup OtherFunctionInputs

\* column references: an optional table, whitespace on either side of the dot
ColumnNames == {"foo", "bar", "_a1", "T"}

DotGaps == {"", " ", "  ", "\t"}

ColumnSuffixes == {"", " ", ")", ", x", " . ", ".", " as y"}

QualifiedText(t, l, r, n, x) == Chars(t \o l \o "." \o r \o n \o x)

QualifiedNames == {"bar", "_a1"}

QualifiedSuffixes == {"", ")", " as y"}

BareSuffixes == {"", " ", ")", ", x", " as y"}

ColumnInputs ==
    {QualifiedText(t, l, r, n, x) : t \in ColumnNames, l \in DotGaps, r \in DotGaps,
                                    n \in QualifiedNames, x \in QualifiedSuffixes}
      \cup {Chars(n \o x) : n \in ColumnNames, x \in ColumnSuffixes}
      \cup {Chars(s) : s \in {"", "1", ".bar", " foo", "1a.b", "foo.1"}}

\* field references: ordinals around the width of a u64, and expressions
\* digit texts that fit a u64, each with the text of its value
FittingOrdinals ==
    {<<"0", "0">>, <<"1", "1">>, <<"2", "2">>, <<"007", "7">>, <<"42", "42">>,
     <<I64Max, I64Max>>, <<I64MinMagnitude, I64MinMagnitude>>, <<U64Max, U64Max>>}

OverflowingOrdinals == {"18446744073709551616", "99999999999999999999"}

\* the fitting ordinals that also fit an i64
SmallOrdinals == {<<"0", "0">>, <<"1", "1">>, <<"2", "2">>, <<"007", "7">>, <<"42", "42">>,
                  <<I64Max, I64Max>>}

OrdinalTexts == {n[1] : n \in FittingOrdinals} \cup OverflowingOrdinals

OrdinalSuffixes == {"", " ", ", 2", " desc", ".5", "abc"}

FieldExpressionTexts ==
    {"a", "t.a", "t . a", "count(*)", "sum(x)", "'s'", "coalesce(a, 1)", "-1", "", " 1", "("}

FieldReferenceInputs ==
    {Chars(n \o x) : n \in OrdinalTexts, x \in OrdinalSuffixes}
      \cup {Chars(s) : s \in FieldExpressionTexts}

\* statement ends: whitespace, a terminator, whitespace, and what follows
TerminatorLeads == {"", " ", "  \t", "\n", " \r\n ", "\n\n"}

TerminatorTrails == {"", " ", " \t ", "\n", " \r\n"}

TerminatorFollowers == {"", "x", ";", "select 1", ",", ";;x"}

OtherFollowers == {"x", "select 1", ",", ")", "x;"}

TerminatorInputs ==
    {Chars(l \o ";" \o t \o f) : l \in TerminatorLeads, t \in TerminatorTrails,
                                 f \in TerminatorFollowers}
      \cup {Chars(l \o f) : l \in TerminatorLeads, f \in OtherFollowers \cup {""}}

\* foreign keys: named or not, one or two columns, every pair of actions
KeyNames == {None, Some(Chars("fk"))}

IndexNames == {None, Some(Chars("idx"))}

KeyColumns ==
    {<<Column(Chars("a"), None)>>,
     <<Column(Chars("a"), None), Column(Chars("b"), Some(Chars("t")))>>}

TargetColumns ==
    {<<Column(Chars("x"), None)>>, <<Column(Chars("x"), None), Column(Chars("y"), None)>>}

OptionalActions == {None} \cup {Some(a) : a \in ReferentialActions}

ForeignKeys ==
    {ForeignKey(n, x, c, Table(Chars("users")), tc, d, u) :
        n \in KeyNames, x \in IndexNames, c \in KeyColumns, tc \in TargetColumns,
        d \in OptionalActions, u \in OptionalActions}

\* field-definition lists: entries with the value each denotes, separators,
\* and what follows the list with what of it is left over
FieldEntries ==
    {<<"*", FieldAll>>,
     <<"t.*", FieldAllInTable(Chars("t"))>>,
     <<"a", FieldDefinitionExpression(ExprColumn(Column(Chars("a"), None)), None)>>,
     <<"t.a", FieldDefinitionExpression(ExprColumn(Column(Chars("a"), Some(Chars("t")))),
                                        None)>>,
     <<"a as x", FieldDefinitionExpression(ExprColumn(Column(Chars("a"), None)),
                                           Some(Chars("x")))>>,
     <<"count(*) c", FieldDefinitionExpression(ExprCall(CountStar), Some(Chars("c")))>>}

FieldLists ==
    {<<>>} \cup {<<e>> : e \in FieldEntries} \cup (FieldEntries \X FieldEntries)
      \cup {<<e, e, e>> : e \in FieldEntries}

FieldSeparators == {",", ", ", " ,\t"}

FieldTrailers ==
    {<<"", "">>, <<",", "">>, <<" , ", "">>, <<",,", ",">>, <<", ,", ",">>, <<" ;", " ;">>,
     <<",;", ";">>}

RECURSIVE FieldListSource(_, _)
FieldListSource(l, sep) ==
    IF l = <<>> THEN ""
    ELSE IF Len(l) = 1 THEN l[1][1]
    ELSE l[1][1] \o sep \o FieldListSource(Tail(l), sep)

FieldListText(l, sep, trailer) == Chars(FieldListSource(l, sep) \o trailer)

FieldListInputs ==
    {FieldListText(l, s, t[1]) : l \in FieldLists, s \in FieldSeparators, t \in FieldTrailers}

\* delimiters and bodies for opt_delimited, and texts built from them
DelimitedParsers ==
    {[first |-> "(", second |-> "abc", third |-> ")"],
     [first |-> "[", second |-> "x", third |-> "]"],
     [first |-> "a", second |-> "ab", third |-> "b"]}

DelimitedOpenings == {"", "(", "[", "((", "a", " "}

DelimitedBodies == {"abc", "ab", "x", "", "abcabc"}

DelimitedClosings == {"", ")", "]", "))", ") rest", "b", "z"}

DelimitedInputs ==
    {Chars(o \o b \o c) : o \in DelimitedOpenings, b \in DelimitedBodies,
                          c \in DelimitedClosings}

\* SqlType values: every bare variant, lengths at the ends of the u16 range,
\* precisions and scales at the ends of theirs
TypeLengths == {None, Some(1), Some(6), Some(255), Some(65535)}

NumericPrecisions ==
    {None} \cup {Some(<<p, s>>) : p \in {1, 10, 255, 256, 65535},
                                  s \in {None, Some(0), Some(2), Some(255)}}

DecimalPairs == {1, 10, 30, 32, 255} \X {0, 2, 10, 255}

EnumVariants ==
    {<<LitString(Chars("a"))>>, <<LitString(Chars("a")), LitString(Chars("b"))>>,
     <<LitInteger(FALSE, Chars("1")), LitNull>>}

SqlTypes ==
    {Ty(n) : n \in DOMAIN UnitTypeNames}
      \cup {TyLen(n, l) : n \in DOMAIN LengthTypeNames \cup DOMAIN UnsignedTypeNames,
                          l \in TypeLengths}
      \cup {TyLen("Varbinary", l) : l \in {0, 1, 255, 65535}}
      \cup {TyNumeric(p) : p \in NumericPrecisions}
      \cup {TyDecimal(p[1], p[2]) : p \in DecimalPairs}
      \cup {TyEnum(v) : v \in EnumVariants}

(***************************************************************************)
(* The state machine: the initial state holds the call to make, a step     *)
(* makes it                                                                *)
(***************************************************************************)
NoResult == Err(<<>>, "NotCalled")

\* no table key or type is involved in the call
NoSubject == <<>>

Init ==
    /\ pc = "ready"
    /\ res = NoResult
    /\ \/ /\ fn = "display"
          /\ dialect \in Dialects
          /\ lit \in Literals
          /\ other = LitNull
          /\ subject = NoSubject
          /\ text = <<>>
       \/ /\ fn = "eq_hash"
          /\ dialect = "MySQL"
          /\ \E t \in {"Float", "Double"} :
                /\ lit \in {[tag |-> t, real |-> a] : a \in ComparedReals}
                /\ other \in {[tag |-> t, real |-> b] : b \in ComparedReals}
          /\ subject = NoSubject
          /\ text = <<>>
       \/ /\ fn = "literal"
          /\ dialect \in Dialects
          /\ text \in LiteralInputs
          /\ lit = LitNull
          /\ other = LitNull
          /\ subject = NoSubject
       \/ /\ fn = "integer_literal"
          /\ dialect = "MySQL"
          /\ text \in IntegerInputs \cup OtherLiteralInputs
          /\ lit = LitNull
          /\ other = LitNull
          /\ subject = NoSubject
       \/ /\ fn = "float_literal"
          /\ dialect = "MySQL"
          /\ text \in FloatInputs \cup LongFractionInputs \cup OtherLiteralInputs
          /\ lit = LitNull
          /\ other = LitNull
          /\ subject = NoSubject
       \/ /\ fn = "type_identifier"
          /\ dialect \in Dialects
          /\ text \in TypeInputs
          /\ lit = LitNull
          /\ other = LitNull
          /\ subject = NoSubject
       \/ /\ fn = "column_function"
          /\ dialect \in Dialects
          /\ text \in FunctionInputs
          /\ lit = LitNull
          /\ other = LitNull
          /\ subject = NoSubject
       \/ /\ fn = "column_identifier_no_alias"
          /\ dialect \in Dialects
          /\ text \in ColumnInputs
          /\ lit = LitNull
          /\ other = LitNull
          /\ subject = NoSubject
       \/ /\ fn = "field_reference"
          /\ dialect \in Dialects
          /\ text \in FieldReferenceInputs
          /\ lit = LitNull
          /\ other = LitNull
          /\ subject = NoSubject
       \/ /\ fn = "statement_terminator"
          /\ dialect = "MySQL"
          /\ text \in TerminatorInputs
          /\ lit = LitNull
          /\ other = LitNull
          /\ subject = NoSubject
       \/ /\ fn = "table_key_display"
          /\ dialect = "MySQL"
          /\ subject \in ForeignKeys
          /\ text = <<>>
          /\ lit = LitNull
          /\ other = LitNull
       \/ /\ fn = "field_definition_expr"
          /\ dialect \in Dialects
          /\ text \in FieldListInputs
          /\ lit = LitNull
          /\ other = LitNull
          /\ subject = NoSubject
       \/ /\ fn = "opt_delimited"
          /\ dialect = "MySQL"
          /\ subject \in DelimitedParsers
          /\ text \in DelimitedInputs
          /\ lit = LitNull
          /\ other = LitNull
       \/ /\ fn = "type_round_trip"
          /\ dialect \in Dialects
          /\ subject \in SqlTypes
          /\ text = <<>>
          /\ lit = LitNull
          /\ other = LitNull

\* lit.to_string()
CallDisplay ==
    /\ pc = "ready"
    /\ fn = "display"
    /\ pc' = "rendered"
    /\ text' = DisplayLiteral(lit)
    /\ UNCHANGED <<fn, dialect, lit, other, subject, res>>

\* literal(dialect)(s.as_bytes()) on the text just rendered
CallRoundTrip ==
    /\ pc = "rendered"
    /\ pc' = "done"
    /\ res' = literal(dialect, text)
    /\ UNCHANGED <<fn, dialect, text, lit, other, subject>>

\* real1 == real2 and hash(&real1), hash(&real2)
CallEqHash ==
    /\ pc = "ready"
    /\ fn = "eq_hash"
    /\ pc' = "done"
    /\ res' = Ok(<<>>, [tag |-> "EqHash", eq |-> RealEq(lit.real, other.real),
                        hash_a |-> RealHash(lit.real), hash_b |-> RealHash(other.real)])
    /\ UNCHANGED <<fn, dialect, text, lit, other, subject>>

CallLiteral ==
    /\ pc = "ready"
    /\ fn = "literal"
    /\ pc' = "done"
    /\ res' = literal(dialect, text)
    /\ UNCHANGED <<fn, dialect, text, lit, other, subject>>

CallIntegerLiteral ==
    /\ pc = "ready"
    /\ fn = "integer_literal"
    /\ pc' = "done"
    /\ res' = integer_literal(text)
    /\ UNCHANGED <<fn, dialect, text, lit, other, subject>>

CallFloatLiteral ==
    /\ pc = "ready"
    /\ fn = "float_literal"
    /\ pc' = "done"
    /\ res' = float_literal(text)
    /\ UNCHANGED <<fn, dialect, text, lit, other, subject>>

CallTypeIdentifier ==
    /\ pc = "ready"
    /\ fn = "type_identifier"
    /\ pc' = "done"
    /\ res' = type_identifier(dialect, text)
    /\ UNCHANGED <<fn, dialect, text, lit, other, subject>>

CallColumnFunction ==
    /\ pc = "ready"
    /\ fn = "column_function"
    /\ pc' = "done"
    /\ res' = column_function(dialect, text)
    /\ UNCHANGED <<fn, dialect, text, lit, other, subject>>

CallColumnIdentifier ==
    /\ pc = "ready"
    /\ fn = "column_identifier_no_alias"
    /\ pc' = "done"
    /\ res' = column_identifier_no_alias(dialect, text)
    /\ UNCHANGED <<fn, dialect, text, lit, other, subject>>

CallFieldReference ==
    /\ pc = "ready"
    /\ fn = "field_reference"
    /\ pc' = "done"
    /\ res' = field_reference(dialect, text)
    /\ UNCHANGED <<fn, dialect, text, lit, other, subject>>

CallStatementTerminator ==
    /\ pc = "ready"
    /\ fn = "statement_terminator"
    /\ pc' = "done"
    /\ res' = statement_terminator(text)
    /\ UNCHANGED <<fn, dialect, text, lit, other, subject>>

\* key.to_string()
CallDisplayTableKey ==
    /\ pc = "ready"
    /\ fn = "table_key_display"
    /\ pc' = "done"
    /\ text' = DisplayForeignKey(subject)
    /\ UNCHANGED <<fn, dialect, lit, other, subject, res>>

CallFieldDefinitionExpr ==
    /\ pc = "ready"
    /\ fn = "field_definition_expr"
    /\ pc' = "done"
    /\ res' = field_definition_expr(dialect, text)
    /\ UNCHANGED <<fn, dialect, text, lit, other, subject>>

\* opt_delimited(tag(first), tag(second), tag(third))(s.as_bytes())
CallOptDelimited ==
    /\ pc = "ready"
    /\ fn = "opt_delimited"
    /\ pc' = "done"
    /\ res' = opt_delimited(subject.first, subject.second, subject.third, text)
    /\ UNCHANGED <<fn, dialect, text, lit, other, subject>>

\* ty.to_string()
CallDisplayType ==
    /\ pc = "ready"
    /\ fn = "type_round_trip"
    /\ pc' = "type_rendered"
    /\ text' = DisplaySqlType(subject)
    /\ UNCHANGED <<fn, dialect, lit, other, subject, res>>

\* type_identifier(dialect)(s.as_bytes()) on the text just rendered
CallTypeRoundTrip ==
    /\ pc = "type_rendered"
    /\ fn = "type_round_trip"
    /\ pc' = "done"
    /\ res' = type_identifier(dialect, text)
    /\ UNCHANGED <<fn, dialect, text, lit, other, subject>>

Next ==
    \/ CallDisplay
    \/ CallRoundTrip
    \/ CallEqHash
    \/ CallLiteral
    \/ CallIntegerLiteral
    \/ CallFloatLiteral
    \/ CallTypeIdentifier
    \/ CallColumnFunction
    \/ CallColumnIdentifier
    \/ CallFieldReference
    \/ CallStatementTerminator
    \/ CallDisplayTableKey
    \/ CallFieldDefinitionExpr
    \/ CallOptDelimited
    \/ CallDisplayType
    \/ CallTypeRoundTrip

Spec == Init /\ [][Next]_vars

(***************************************************************************)
(* Properties                                                              *)
(***************************************************************************)
Rendered == pc = "rendered" /\ fn = "display"

Returned(f) == pc = "done" /\ fn = f

\* C1: round-trip law - for every literal that is not a Float, Double,
\* Numeric or ByteArray and for both dialects, parsing the rendered text
\* succeeds and returns a value equal to the original.
RoundTripLaw ==
    (Returned("display") /\ lit \in RoundTripLiterals)
        => (res.ok /\ res.val.tag = lit.tag /\ res.val = lit)

\* C2: a == b holds exactly when hash(a) == hash(b), for every pair of
\* Float or Double values including NaN, the infinities and the signed
\* zeros; both are computed from the bit pattern and the precision.
HashMatchesEq ==
    Returned("eq_hash")
        => /\ res.val.eq <=> (res.val.hash_a = res.val.hash_b)
           /\ res.val.eq <=> (/\ to_bits(lit.real.value) = to_bits(other.real.value)
                              /\ lit.real.precision = other.real.precision)

\* two NaNs of one bit pattern and precision compared: equal, equal hashes
HashMatchesEqWitness ==
    /\ Returned("eq_hash")
    /\ lit.real.value.class = "nan"
    /\ lit = other
    /\ res.val.eq
    /\ res.val.hash_a = res.val.hash_b

\* the number of digits after the decimal point of a rendered number
FractionDigitCount(s) ==
    IF \E k \in 1..Len(s) : s[k] = "." THEN Len(s) - (CHOOSE k \in 1..Len(s) : s[k] = ".")
    ELSE 0

IsWhole(v) == v.class = "finite" /\ v.frac = <<>>

\* C3: rendering a Float or Double, for every value and every precision tag,
\* caps the fraction at 30 digits, trims trailing zeros and puts one zero
\* back after a bare decimal point: the output never ends in '.', keeps no
\* trailing zero but that one, and a whole number renders as its integer
\* digits followed by ".0".
RealRendering ==
    (Rendered /\ lit.tag \in {"Float", "Double"})
        => /\ ~ends_with(text, ".")
           /\ FractionDigitCount(text) <= MaxRenderPrecision
           /\ ends_with(text, "0") => (Len(text) >= 2 /\ text[Len(text) - 1] = ".")
           /\ IsWhole(lit.real.value)
                => text = (IF lit.real.value.neg THEN <<"-">> ELSE <<>>)
                            \o lit.real.value.int \o Chars(".0")


FittingIntegerDigits ==
    {"0", "7", "12", "007", "9223372036854775806", I64Max, "00000000000000000000000012"}

\* C4: in literal the floating alternative is tried before the integer one -
\* input that starts with optional '-', digits, '.', digits is one Double
\* consuming the whole numeric token, never Integer of the leading digits
\* with the ".digits" left over; digits not followed by ".digit" are parsed
\* as Integer.
FloatBeforeInteger ==
    Returned("literal")
        => /\ \A s \in FloatSigns, m \in FloatInts, f \in FloatFracs, x \in FloatSuffixes :
                text = FloatText(s, m, f, x)
                    => /\ res.ok
                       /\ res.val.tag = "Double"
                       /\ res.rest = Chars(x)
                       /\ res.val.real.value.int = StripZeros(Chars(m))
                       /\ res.val.real.value.neg = (s = "-")
           /\ \A s \in FloatSigns, m \in IntegerDigits, x \in IntegerSuffixes :
                text = IntegerText(s, m, x)
                    => /\ res.ok => (res.val.tag = "Integer" /\ res.rest = Chars(x))
                       /\ m \in FittingIntegerDigits => res.ok

FloatBeforeIntegerWitness ==
    /\ Returned("literal")
    /\ text = Chars("-12.50abc")
    /\ res.ok
    /\ res.val.tag = "Double"
    /\ res.rest = Chars("abc")

OverflowingIntegerDigits ==
    {I64MinMagnitude, "9223372036854775809", "18446744073709551616",
     "18446744073709551617", "99999999999999999999"}

\* C5: integer literal overflow is a parse failure - when the digits denote
\* a magnitude that does not fit a signed 64-bit integer, integer_literal
\* returns a recoverable error, never a wrapped or truncated Integer.
IntegerOverflowFails ==
    Returned("integer_literal")
        => \A s \in FloatSigns, m \in IntegerDigits, x \in IntegerSuffixes :
                text = IntegerText(s, m, x)
                    => /\ m \in OverflowingIntegerDigits
                            => (~res.ok /\ res.val.tag = "Error")
                       /\ res.ok => (/\ res.val.tag = "Integer"
                                     /\ res.val.mag = StripZeros(Chars(m)))

IntegerOverflowFailsWitness ==
    /\ Returned("integer_literal")
    /\ text = Chars("18446744073709551617")
    /\ ~res.ok

\* C6: the precision stored in a parsed floating literal equals the number
\* of digits written after the decimal point, for every fraction length,
\* including fractions longer than 255 digits.
PrecisionIsFractionLength ==
    Returned("float_literal")
        => \A n \in FractionLengths :
                text = LongFractionText(n)
                    => (res.ok /\ res.val.tag = "Double" /\ res.val.real.precision = n)


LongerKeywords ==
    {<<"integer", TyLen("Int", None)>>, <<"datetime", TyLen("DateTime", None)>>,
     <<"timestamp", Ty("Timestamp")>>, <<"boolean", Ty("Bool")>>, <<"jsonb", Ty("Jsonb")>>,
     <<"bit varying", TyLen("Varbit", None)>>,
     <<"character varying", TyLen("Varchar", None)>>, <<"tinytext", Ty("Tinytext")>>,
     <<"mediumtext", Ty("Mediumtext")>>, <<"longtext", Ty("Longtext")>>}

ShorterKeywords ==
    {<<"int", TyLen("Int", None)>>, <<"date", Ty("Date")>>, <<"time", Ty("Time")>>,
     <<"bool", Ty("Bool")>>, <<"json", Ty("Json")>>, <<"bit", TyLen("Bit", None)>>,
     <<"char", TyLen("Char", None)>>, <<"text", Ty("Text")>>}

\* the longer keywords that take a parenthesised length
SizedLongerKeywords ==
    {<<"integer", "Int">>, <<"datetime", "DateTime">>, <<"bit varying", "Varbit">>,
     <<"character varying", "Varchar">>}

\* C7: the ordered alternation is longest-prefix-safe - for each keyword
\* that has a shorter keyword as a prefix or shares its leading word
\* (integer/int, datetime/date, timestamp/time, boolean/bool, jsonb/json,
\* "bit varying"/bit, "character varying"/char, tinytext, mediumtext and
\* longtext/text), type_identifier on the longer keyword returns the longer
\* keyword's type with the whole keyword consumed.
LongestPrefixSafe ==
    Returned("type_identifier")
        => /\ \A k \in LongerKeywords \cup ShorterKeywords :
                LowerText(text) = Chars(k[1]) => res = Ok(<<>>, k[2])
           /\ \A k \in SizedLongerKeywords :
                LowerText(text) = Chars(k[1] \o "(16)") => res = Ok(<<>>, TyLen(k[2], Some(16)))

LongestPrefixSafeWitness ==
    /\ Returned("type_identifier")
    /\ text = Chars("TIMESTAMP")
    /\ res = Ok(<<>>, Ty("Timestamp"))

WrittenU8 == {p \in WrittenPrecisions : p <= 255}

WrittenU16 == {p \in WrittenPrecisions : p <= 65535}

WrittenScaleU8 == {s \in WrittenScales : s <= 255}

\* C9: type_identifier maps NUMERIC to Numeric(None), NUMERIC(p) to
\* Numeric(Some((p, None))) and NUMERIC(p, s) to Numeric(Some((p, Some(s))))
\* for every p that fits 16 bits and s that fits 8 bits, whatever their
\* order.
NumericMapping ==
    Returned("type_identifier")
        => \A k \in NumericKeywords :
            /\ text = Chars(k) => res = Ok(<<>>, TyNumeric(None))
            /\ \A p \in WrittenU16 :
                /\ text = Chars(k) \o PrecisionOnly(p)
                     => res = Ok(<<>>, TyNumeric(Some(<<p, None>>)))
                /\ \A s \in WrittenScaleU8, sep \in ScaleSeparators :
                     text = Chars(k) \o PrecisionScale(p, sep, s)
                        => res = Ok(<<>>, TyNumeric(Some(<<p, Some(s)>>)))

NumericMappingWitness ==
    /\ Returned("type_identifier")
    /\ text = Chars("NUMERIC(10, 20)")
    /\ res = Ok(<<>>, TyNumeric(Some(<<10, Some(20)>>)))

\* C10: every Decimal(precision, scale) the type grammar produces has
\* 1 <= precision <= 30 and scale <= precision, whatever digits (or none)
\* are written.
DecimalInvariant ==
    (Returned("type_identifier") /\ res.ok /\ res.val.tag = "Decimal")
        => (1 <= res.val.m /\ res.val.m <= 30 /\ res.val.d <= res.val.m)


\* the keywords followed by an optional parenthesised width read as a u16
WidthKeywords ==
    {"tinyint", "smallint", "integer", "int", "bigint", "datetime", "varchar", "char",
     "binary", "bit", "varbinary"}

\* C11: a type specifier whose parenthesised width, precision or scale
\* exceeds the target integer width (u16 for widths, u8 for decimal
\* precision and scale) fails to parse - type_identifier never succeeds on it
\* with the value truncated, wrapped or dropped.
WidthOverflowFails ==
    Returned("type_identifier")
        => /\ \A k \in WidthKeywords : LowerText(text) = Chars(k \o "(70000)") => ~res.ok
           /\ \A k \in DecimalKeywords :
                /\ \A p \in WrittenPrecisions \ WrittenU8 :
                     text = Chars(k) \o PrecisionOnly(p) => ~res.ok
                /\ \A p \in WrittenU8, s \in WrittenScales \ WrittenScaleU8,
                      sep \in ScaleSeparators :
                     text = Chars(k) \o PrecisionScale(p, sep, s) => ~res.ok


\* C12: for TIMESTAMP, type_identifier returns TimestampTz exactly when a
\* WITH TIME ZONE clause follows, with or without a parenthesised
\* fractional-seconds precision before it, and Timestamp when the clause is
\* WITHOUT TIME ZONE or absent; the precision is consumed and does not
\* affect the result.
TimestampZone ==
    Returned("type_identifier")
        => \A k \in TimestampKeywords, p \in TimestampPrecisions :
            /\ \A z \in WithTimeZone :
                 text = Chars(k \o p \o z) => res = Ok(<<>>, Ty("TimestampTz"))
            /\ \A z \in WithoutTimeZone :
                 text = Chars(k \o p \o z) => res = Ok(<<>>, Ty("Timestamp"))

TimestampZoneWitness ==
    /\ Returned("type_identifier")
    /\ text = Chars("TIMESTAMP (5) with time zone")
    /\ res = Ok(<<>>, Ty("TimestampTz"))


\* C13: when no alternative of type_identifier matches, the result is a
\* recoverable error and no input is consumed - the error stands at the
\* position the call was given, and a branch that matched a keyword and then
\* failed leaves that position unchanged for the alternatives after it
\* ("bit" and "character" fall through to the bit and char branches) and
\* for the caller ("varbinary" without its length).
FailedBranchConsumesNothing ==
    Returned("type_identifier")
        => /\ ~res.ok => (Recoverable(res) /\ res.rest = text)
           /\ text = Chars("bit") => res = Ok(<<>>, TyLen("Bit", None))
           /\ text = Chars("character") => res = Ok(Chars("acter"), TyLen("Char", None))
           /\ text = Chars("bit(16)") => res = Ok(<<>>, TyLen("Bit", Some(16)))
           /\ text \in {Chars("varbinary"), Chars("varbinary(70000)"), Chars("enum('a'")}
                => ~res.ok

FailedBranchConsumesNothingWitness ==
    /\ Returned("type_identifier")
    /\ text = Chars("varbinary(70000)")
    /\ Recoverable(res)
    /\ res.rest = text


\* C14: column_function parses GROUP_CONCAT(column SEPARATOR 'text') to
\* GroupConcat of the column with separator equal to text, and
\* GROUP_CONCAT(column) to GroupConcat with the separator ",".
GroupConcatSeparator ==
    Returned("column_function")
        => \A k \in GroupConcatKeywords, c \in ColumnTexts :
            /\ \A s \in SeparatorClauses :
                 text = GroupConcatText(k, c[1], s[1])
                    => res = Ok(<<>>, GroupConcat(ExprColumn(c[2]), s[2]))
            /\ text = GroupConcatText(k, c[1], "")
                 => res = Ok(<<>>, GroupConcat(ExprColumn(c[2]), <<",">>))

GroupConcatSeparatorWitness ==
    /\ Returned("column_function")
    /\ text = Chars("GROUP_CONCAT(t.x)")
    /\ res.ok
    /\ res.val.tag = "GroupConcat"
    /\ res.val.separator = <<",">>


\* C15: a function name that is not an aggregate form, optional whitespace and
\* a parenthesised comma-separated argument list with optional whitespace
\* around each argument parse to Call{name, arguments}, the arguments in
\* written order and all input consumed; this includes names that start with
\* an aggregate keyword, and the name count itself when the special form does
\* not match
GenericCallAfterAggregates ==
    Returned("column_function")
        => /\ \A n \in NonAggregateNames, g \in NameGaps :
                /\ \A l \in ArgumentLists, p \in ArgumentPads :
                     text = CallText(n, g, l, p)
                        => res = Ok(<<>>, Call(Chars(n),
                                               [j \in 1..Len(l) |-> ArgumentTexts[l[j]]]))
                /\ text = CallText(n, g, <<>>, <<"", "">>)
                     => res = Ok(<<>>, Call(Chars(n), <<>>))
           /\ text = Chars("count (x)")
                => res = Ok(<<>>, Call(Chars("count"),
                                       <<ExprColumn(Column(Chars("x"), None))>>))
           /\ text = Chars("count(a,b)")
                => res = Ok(<<>>, Call(Chars("count"),
                                       <<ArgumentTexts.a, ArgumentTexts.b>>))

GenericCallAfterAggregatesWitness ==
    /\ Returned("column_function")
    /\ text = Chars("counter \t( \ta  , \tb  , \tc  )")
    /\ res = Ok(<<>>, Call(Chars("counter"),
                           <<ArgumentTexts.a, ArgumentTexts.b, ArgumentTexts.c>>))


\* C16: COUNT(*) parses to CountStar; COUNT(e), SUM(e) and AVG(e) parse to
\* Count, Sum and Avg of e, and the distinct flag is true exactly when the
\* keyword DISTINCT followed by whitespace precedes the argument
AggregateDistinctFlag ==
    Returned("column_function")
        => /\ text \in CountStarInputs => res = Ok(<<>>, CountStar)
           /\ \A k \in AggregateKeywords, p \in DistinctPrefixes \cup {""},
                 a \in AggregateArguments :
                text = AggregateText(k[1], p, a[1])
                   => res = Ok(<<>>, CASE k[2] = "Count" -> Count(a[2], p # "")
                                       [] k[2] = "Sum" -> Sum(a[2], p # "")
                                       [] k[2] = "Avg" -> Avg(a[2], p # ""))

AggregateDistinctFlagWitness ==
    /\ Returned("column_function")
    /\ text = Chars("Sum(DISTINCT  t.x)")
    /\ res.ok
    /\ res.val.tag = "Sum"
    /\ res.val.distinct


\* C17: column_identifier_no_alias accepts an optional table and dot with any
\* amount of whitespace on either side of the dot, giving Column{table, name};
\* a bare identifier gives a Column with no table
QualifiedColumn ==
    Returned("column_identifier_no_alias")
        => /\ \A t \in ColumnNames, l \in DotGaps, r \in DotGaps, n \in QualifiedNames,
                 x \in QualifiedSuffixes :
                text = QualifiedText(t, l, r, n, x)
                   => res = Ok(Chars(x), Column(Chars(n), Some(Chars(t))))
           /\ \A n \in ColumnNames, x \in BareSuffixes :
                text = Chars(n \o x) => res = Ok(Chars(x), Column(Chars(n), None))

QualifiedColumnWitness ==
    /\ Returned("column_identifier_no_alias")
    /\ text = Chars("foo . bar")
    /\ res = Ok(<<>>, Column(Chars("bar"), Some(Chars("foo"))))


\* C18: under PostgreSQL every accepted field reference is an Expression, a
\* bare number being an integer-literal expression; under MySQL digits that
\* fit a u64 give Numeric of that ordinal and leave what follows them, and
\* every other accepted input is an Expression
FieldReferenceByDialect ==
    Returned("field_reference")
        => /\ dialect = "PostgreSQL"
                => /\ res.ok => res.val.tag = "Expression"
                   /\ \A n \in SmallOrdinals :
                        text = Chars(n[1])
                           => res = Ok(<<>>, FieldExpression(ExprLiteral(
                                                 LitInteger(FALSE, Chars(n[2])))))
           /\ dialect = "MySQL"
                => /\ \A n \in FittingOrdinals, x \in OrdinalSuffixes :
                        text = Chars(n[1] \o x) => res = Ok(Chars(x), FieldNumeric(Chars(n[2])))
                   /\ (\A n \in FittingOrdinals, x \in OrdinalSuffixes : text # Chars(n[1] \o x))
                         /\ res.ok
                        => res.val.tag = "Expression"
                   /\ \A e \in {"a", "t.a", "t . a", "count(*)", "sum(x)", "'s'",
                                "coalesce(a, 1)", "-1"} :
                        text = Chars(e) => res.ok /\ res.rest = <<>>

FieldReferenceByDialectWitness ==
    /\ Returned("field_reference")
    /\ dialect = "MySQL"
    /\ text = Chars("007, 2")
    /\ res = Ok(Chars(", 2"), FieldNumeric(Chars("7")))


\* C19: a Blob literal renders as its bytes in order, each byte as two
\* lowercase hexadecimal digits, bytes below 0x10 included, separated by
\* single spaces
BlobHexPairs ==
    [v \in BlobBytes |-> CASE v = 0 -> Chars("00") [] v = 10 -> Chars("0a")
                           [] v = 18 -> Chars("12") [] v = 171 -> Chars("ab")
                           [] v = 255 -> Chars("ff")]

BlobRendersHexPairs ==
    Rendered /\ lit.tag = "Blob"
        => text = Join([k \in 1..Len(lit.bytes) |-> BlobHexPairs[lit.bytes[k]]], <<" ">>)


\* C20: in both dialects every upper/lower-case spelling of true parses to
\* Boolean(true) and every spelling of false to Boolean(false)
BooleanCaseInsensitive ==
    Returned("literal")
        => /\ text \in TrueSpellings => res = Ok(<<>>, LitBoolean(TRUE))
           /\ text \in FalseSpellings => res = Ok(<<>>, LitBoolean(FALSE))

BooleanCaseInsensitiveWitness ==
    /\ Returned("literal")
    /\ dialect = "PostgreSQL"
    /\ text = Chars("fAlSe")
    /\ res = Ok(<<>>, LitBoolean(FALSE))

\* C21: statement_terminator succeeds exactly when the input, after its
\* leading whitespace, has a ';', a line ending, or nothing left; on success
\* it also consumes the whitespace after the terminator, and on any other
\* input it fails
AfterWhitespace(i) == Drop(i, PrefixLen(i, WhitespaceBytes))

ReferentialClauses(k) ==
    (IF IsSome(k.on_delete)
     THEN Chars(" ON DELETE ") \o DisplayReferentialAction(k.on_delete[1]) ELSE <<>>)
      \o (IF IsSome(k.on_update)
          THEN Chars(" ON UPDATE ") \o DisplayReferentialAction(k.on_update[1]) ELSE <<>>)

ForeignKeyRendering ==
    Returned("table_key_display")
        => text = Chars("CONSTRAINT ") \o UnwrapOrEmpty(subject.name) \o Chars(" FOREIGN KEY ")
                    \o UnwrapOrEmpty(subject.index_name) \o Chars("(")
                    \o DisplayColumns(subject.columns) \o Chars(") REFERENCES ")
                    \o subject.target_table.name \o Chars("(")
                    \o DisplayColumns(subject.target_columns) \o Chars(")")
                    \o ReferentialClauses(subject)

\* C22, amended: the constraint name is backtick-quoted as well, and a space
\* separates the target table from its column list
ForeignKeyRenderingQuoted ==
    Returned("table_key_display")
        => text = Chars("CONSTRAINT ") \o Quoted(UnwrapOrEmpty(subject.name))
                    \o Chars(" FOREIGN KEY ") \o UnwrapOrEmpty(subject.index_name)
                    \o Chars("(") \o DisplayColumns(subject.columns) \o Chars(") REFERENCES ")
                    \o subject.target_table.name \o Chars(" (")
                    \o DisplayColumns(subject.target_columns) \o Chars(")")
                    \o ReferentialClauses(subject)

ForeignKeyRenderingWitness ==
    /\ Returned("table_key_display")
    /\ subject = ForeignKey(Some(Chars("fk")), Some(Chars("idx")), <<Column(Chars("a"), None)>>,
                            Table(Chars("users")), <<Column(Chars("x"), None)>>,
                            Some("SetNull"), Some("Cascade"))
    /\ text = Chars("CONSTRAINT ") \o Quoted(Chars("fk")) \o Chars(" FOREIGN KEY idx(")
                \o Quoted(Chars("a")) \o Chars(") REFERENCES users (") \o Quoted(Chars("x"))
                \o Chars(") ON DELETE SET NULL ON UPDATE CASCADE")

\* C23: integer_literal accepts an optional '-' and digits whenever the
\* denoted value fits a signed 64-bit integer and returns Integer of exactly
\* that value, at both boundaries: i64::MAX and i64::MIN
IntegerBoundaries ==
    Returned("integer_literal")
        => /\ \A s \in FloatSigns, m \in FittingIntegerDigits :
                text = IntegerText(s, m, "")
                   => res = Ok(<<>>, LitInteger(s = "-" /\ StripZeros(Chars(m)) # <<"0">>,
                                                StripZeros(Chars(m))))
           /\ text = IntegerText("-", I64MinMagnitude, "")
                => res = Ok(<<>>, LitInteger(TRUE, Chars(I64MinMagnitude)))

\* C24: field_definition_expr parses a comma-separated list of '*',
\* 'table.*' or expression-with-optional-alias entries with optional
\* whitespace around each comma, and after the list consumes at most one
\* trailing comma - a second consecutive trailing comma is left unconsumed,
\* and an empty list still succeeds
FieldDefinitionList_TrailingComma ==
    Returned("field_definition_expr")
        => \A l \in FieldLists, s \in FieldSeparators, t \in FieldTrailers :
              text = FieldListText(l, s, t[1])
                 => res = Ok(Chars(t[2]), [j \in 1..Len(l) |-> l[j][2]])

FieldDefinitionList_TrailingCommaWitness ==
    /\ Returned("field_definition_expr")
    /\ text = Chars("t.* ,\ta as x,,")
    /\ res = Ok(<<",">>, <<FieldAllInTable(Chars("t")),
                           FieldDefinitionExpression(ExprColumn(Column(Chars("a"), None)),
                                                     Some(Chars("x")))>>)

\* C25: opt_delimited returns second's result when second matches at the
\* start of the input on its own, leaving a following closing delimiter
\* unconsumed; otherwise it succeeds only if first, second and third match in
\* sequence, so an opening delimiter with no matching close, or a
\* non-matching body, is an error
StartsWith(i, s) == Len(i) >= Len(s) /\ SubSeq(i, 1, Len(s)) = Chars(s)

OptDelimited ==
    Returned("opt_delimited")
        => /\ IF StartsWith(text, subject.second)
              THEN res = Ok(SubSeq(text, Len(subject.second) + 1, Len(text)),
                            Chars(subject.second))
              ELSE IF StartsWith(text, subject.first \o subject.second \o subject.third)
              THEN res = Ok(SubSeq(text,
                                   Len(subject.first \o subject.second \o subject.third) + 1,
                                   Len(text)),
                            Chars(subject.second))
              ELSE ~res.ok
           /\ subject.second = "abc"
                => /\ text = Chars("(abc)") => res = Ok(<<>>, Chars("abc"))
                   /\ text = Chars("(abc) rest") => res = Ok(Chars(" rest"), Chars("abc"))
                   /\ text \in {Chars("(abc"), Chars("ab"), Chars("(ab)"), Chars("((abc))")}
                        => ~res.ok

OptDelimitedWitness ==
    /\ Returned("opt_delimited")
    /\ subject = [first |-> "(", second |-> "abc", third |-> ")"]
    /\ text = Chars("abc)")
    /\ res = Ok(<<")">>, Chars("abc"))

\* C26: rendering a Float or Double never removes or changes digits to the
\* left of the decimal point - for every finite value and every precision,
\* precision 0 included, the output is non-empty and its part before the
\* decimal point is that of the formatted number
IntegerPart(s) ==
    IF \E k \in 1..Len(s) : s[k] = "." THEN Take(s, (CHOOSE k \in 1..Len(s) : s[k] = ".") - 1)
    ELSE s

IntegerPartKept ==
    (Rendered /\ lit.tag \in {"Float", "Double"} /\ lit.real.value.class = "finite")
        => /\ text # <<>>
           /\ IntegerPart(text)
                = IntegerPart(FormatReal(lit.real.value,
                                         IF lit.real.precision < 30 THEN lit.real.precision
                                         ELSE 30))

\* C27: MAX and MIN accept a leading DISTINCT keyword and discard it -
\* 'max(distinct e)' succeeds and returns the same Max(e) as 'max(e)',
\* likewise for MIN
ExtremumDiscardsDistinct ==
    Returned("column_function")
        => \A k \in ExtremumKeywords, p \in DistinctPrefixes \cup {""},
              a \in AggregateArguments :
              text = AggregateText(k[1], p, a[1])
                 => res = Ok(<<>>, IF k[2] = "Max" THEN Max(a[2]) ELSE Min(a[2]))

ExtremumDiscardsDistinctWitness ==
    /\ Returned("column_function")
    /\ text = Chars("max(distinct t.x)")
    /\ res = Ok(<<>>, Max(ExprColumn(Column(Chars("x"), Some(Chars("t"))))))

\* C28: for every SqlType value other than Enum, type_identifier applied to
\* the value's rendered text succeeds, consumes all of the text, and returns
\* an equal SqlType
TypeRoundTrip ==
    (Returned("type_round_trip") /\ subject.tag # "Enum") => res = Ok(<<>>, subject)

TypeRoundTripWitness ==
    /\ Returned("type_round_trip")
    /\ subject = TyLen("UnsignedInt", Some(255))
    /\ text = Chars("INT(255) UNSIGNED")
    /\ res = Ok(<<>>, subject)

\* C29: keyword literals whose spelling is a prefix of another are
\* disambiguated by order - literal on 'CURRENT_TIMESTAMP' returns
\* CurrentTimestamp with the whole keyword consumed, never CurrentTime with
\* 'STAMP' left over, and on 'CURRENT_TIME' returns CurrentTime
CurrentKeywordOrder ==
    Returned("literal")
        => \A k \in CurrentKeywordTexts :
              text = Chars(k[1]) => res = Ok(Chars(k[3]), k[2])

CurrentKeywordOrderWitness ==
    /\ Returned("literal")
    /\ text = Chars("CURRENT_TIMESTAMP")
    /\ res = Ok(<<>>, LitCurrentTimestamp)

\* C30: in GROUP_CONCAT, when the SEPARATOR keyword is written but no string
\* literal follows it, the separator is the empty string, not the default
\* comma; the comma applies only when the whole SEPARATOR clause is absent
BareSeparatorIsEmpty ==
    Returned("column_function")
        => \A k \in GroupConcatKeywords, c \in ColumnTexts :
              /\ \A s \in BareSeparatorClauses :
                   text = GroupConcatText(k, c[1], s)
                      => res = Ok(<<>>, GroupConcat(ExprColumn(c[2]), <<>>))
              /\ (res.ok /\ res.val.tag = "GroupConcat" /\ res.val.separator = <<",">>
                    /\ text \in GroupConcatInputs)
                   => \E k2 \in GroupConcatKeywords, c2 \in ColumnTexts :
                         text = GroupConcatText(k2, c2[1], "")

BareSeparatorIsEmptyWitness ==
    /\ Returned("column_function")
    /\ text = Chars("GROUP_CONCAT(t.x SEPARATOR )")
    /\ res = Ok(<<>>, GroupConcat(ExprColumn(Column(Chars("x"), Some(Chars("t")))), <<>>))

====
